---- MODULE Spec2Model ----
(***************************************************************************)
(* Model of pacium: the court reservation workflow of                      *)
(*   - pacium.py (__main__) driving sched.PacControl          (ver "sched") *)
(*   - paccontrol.PacControl.main                             (ver "pac")   *)
(* together with the pure helpers of times.py.                             *)
(*                                                                         *)
(* The web site behind selenium is the environment: every port call may    *)
(* succeed or raise, and what the site shows (availability, dialogs,       *)
(* alerts, directory lookups) is drawn from bounded sets.                  *)
(*                                                                         *)
(* pacium.py line 70 calls pacCtrl.addPlayer() without an argument, while  *)
(* sched.PacControl.addPlayer (sched.py 231) takes playerName: as written  *)
(* the call raises TypeError.  The no-argument add-participant step of     *)
(* sched.PacControl is addPlayers (sched.py 216-229), which calls          *)
(* addPlayer(username).  The model runs both readings of line 70           *)
(* (variable addPlayerCall): the call as written, and the call bound to    *)
(* addPlayers, the only reading under which the rest of the loop runs.     *)
(***************************************************************************)
EXTENDS Integers, Sequences, FiniteSets, TLC

\* ------------------------------------------------------------------ bounds
NumCourts == 2
MaxTimes == 2
NumPeople == 3
MaxDialogs == 2
MaxErrWins == 3
MaxToday == 14
MaxDiff == 4
MaxAdvances == 10
MaxDuration == 65

\* ------------------------------------------------------- program constants
THIRTY_MINUTES == 30
MAX_TRYS == 3

NO_COURTS_MSG == "No available courts found"
NEED_PLAYER_MSG == "Need another player for reservation"

VARIABLES
    ver,                     \* which program runs: "sched" or "pac"
    addPlayerCall,           \* pacium.py line 70: "TypeError" as written, or "addPlayers"
    showMode, testMode,      \* PacArgs flags
    dayOfWeekArg,            \* PacArgs.dayOfWeek: a weekday abbreviation
    today,                   \* date.today(), as a day number
    schDate,                 \* site: the date the schedule page displays
    diff,                    \* navigateToSchedule: its local diff, in days
    advances,                \* history: the date changes navigateToSchedule asked for
    siteLookups,             \* site: what it does at each try of one add-player call
    queries,                 \* history: the blockAvailable calls of the slot search
    subSlots,                \* history: what the two sub-slot derivations returned
    timesInPreferredOrder,   \* CourtTimes.timesInPreferredOrder
    courtsInPreferredOrder,  \* Courts.courtsInPreferredOrder
    avail,                   \* the site's schedule: [court, time row] -> free?
    self,                    \* the PacControl object: its fields
    needsReservation,        \* local of the retry loop
    pc,                      \* position of the main program
    exc,                     \* the exception in flight, or surfaced at the end
    calls,                   \* history: the calls made, in order, with their results
    attempts,                \* history: state of every reservation attempt started
    lookups,                 \* history: directory lookups made by the last add-player step
    siteSession              \* site: an authenticated session exists

settings == <<ver, addPlayerCall, showMode, testMode, dayOfWeekArg, today,
             timesInPreferredOrder, courtsInPreferredOrder>>
nav == <<schDate, diff, advances>>
prefs == <<settings, nav, siteLookups, queries, subSlots>>
hist == <<calls, attempts, lookups, siteSession>>
vars == <<prefs, avail, self, needsReservation, pc, exc, hist>>

\* ------------------------------------------------------------ preferences
\* Players.people: index 1 is "self", the rest are candidate co-participants.
people == [i \in 1..NumPeople |-> i - 1]

Courts == 1..NumCourts

\* CourtTime(startTime, duration): minutes after midnight, minutes.
Windows == { [startTime |-> 480, duration |-> 30],
             [startTime |-> 510, duration |-> 30],
             [startTime |-> 480, duration |-> 60],
             [startTime |-> 480, duration |-> 45] }

\* The date the run asks for (CourtTimes.nextDateForDay), as a day number.
requestDate == 0

Perms(S) == { f \in [1..Cardinality(S) -> S] : \A i, j \in 1..Cardinality(S) :
                                                  i # j => f[i] # f[j] }
CourtLists == Perms(Courts)
TimeLists == UNION { [1..n -> Windows] : n \in 1..MaxTimes }

\* ------------------------------------------------------------- times.py
\* time.isoformat(timespec="minutes"): the time of day, the date dropped.
TimeOfDay(t) == << (t \div 60) % 24, t % 60 >>

RECURSIVE TimeRowsFrom(_, _)
TimeRowsFrom(rTime, endTime) ==
    IF rTime < endTime
    THEN << TimeOfDay(rTime) >> \o TimeRowsFrom(rTime + THIRTY_MINUTES, endTime)
    ELSE << >>

getTimeRows(ct) == TimeRowsFrom(ct.startTime, ct.startTime + ct.duration)

\* strftime("%a %b %d %Y %H:%M:%S "): date, hour, minute, second.
StartStamp(dt, t) == << dt + (t \div 1440), (t \div 60) % 24, t % 60, 0 >>

RECURSIVE StartTimesFrom(_, _, _)
StartTimesFrom(dt, rTime, endTime) ==
    IF rTime < endTime
    THEN << StartStamp(dt, rTime) >> \o StartTimesFrom(dt, rTime + THIRTY_MINUTES, endTime)
    ELSE << >>

getStartTimesForDate(ct, dt) ==
    StartTimesFrom(dt, ct.startTime, ct.startTime + ct.duration)

\* The windows whose sub-slots are derived on their own: starts early and late
\* in the day, on and off the half hour, every duration from one minute up.
StartMinutes == { 0, 480, 495, 1380, 1410 }
CourtTimeInputs == [startTime : StartMinutes, duration : 1..MaxDuration]
NoSubSlots == [dt |-> 0, got |-> {}, timeRows |-> << >>, startTimes |-> << >>]

\* times.py, CourtTimes.nextDateForDay.  Day numbers are the ordinals of
\* datetime.date (ordinal 1 is a Monday), day 0 being the Sunday before.
DayAbbrs == << "Mon", "Tue", "Wed", "Thu", "Fri", "Sat", "Sun" >>
DayArgs == { DayAbbrs[i] : i \in 1..7 } \cup { "Xyz" }
\* strptime(dayOfWeekArg, "%a").tm_wday: Monday is 0; -1 stands for the ValueError.
tm_wday(arg) ==
    IF \E i \in 1..7 : DayAbbrs[i] = arg
    THEN (CHOOSE i \in 1..7 : DayAbbrs[i] = arg) - 1
    ELSE -1
\* date.weekday(): Monday is 0.
weekday(d) == (d + 6) % 7

\* Mutant: a request for today's weekday yields the day a week ahead.
nextDateForDay_SkipsToday(td, arg) ==
    LET daysFromToday == (tm_wday(arg) - weekday(td)) % 7
    IN  IF daysFromToday # 0 THEN td + daysFromToday ELSE td + 7

\* nd = date.today(); daysFromToday = (dayOfWeekInt - nd.weekday()) % 7
nextDateForDay(td, arg) ==
    LET daysFromToday == (tm_wday(arg) - weekday(td)) % 7
    IN  IF daysFromToday # 0 THEN td + daysFromToday ELSE td

\* ------------------------------------------------------------ the site
TimeRows == { <<8, 0>>, <<8, 30>> }
AvailTables == [Courts \X TimeRows -> BOOLEAN]

\* What the schedule page of requestDate shows for a court at a time of day.
SiteFree(av, court, row) == IF <<court, row>> \in DOMAIN av THEN av[court, row] ELSE FALSE

\* sched: td#court_<tId>_row_<timeRow> has no class "notenabled".
blockAvailable(av, court, timeRow) == SiteFree(av, court, timeRow)

\* pac: button[start^='<startTime>'][courtlabel='<name>'] is displayed.
blockAvailablePac(av, court, startTime) ==
    /\ startTime[1] = requestDate
    /\ SiteFree(av, court, << startTime[2], startTime[3] >>)

\* --------------------------------------------------------- Slot Search
NoneFound == [court |-> 0, courtTime |-> [startTime |-> 0, duration |-> 0]]
CourtAndTime(court, courtTime) == [court |-> court, courtTime |-> courtTime]

\* all(self.blockAvailable(court, tr) for tr in timeRows)
AllAvailable(v, av, court, ct) ==
    IF v = "sched"
    THEN \A k \in 1..Len(getTimeRows(ct)) : blockAvailable(av, court, getTimeRows(ct)[k])
    ELSE \A k \in 1..Len(getStartTimesForDate(ct, requestDate)) :
            blockAvailablePac(av, court, getStartTimesForDate(ct, requestDate)[k])

RECURSIVE ScanCourts(_, _, _, _, _)
ScanCourts(v, av, ct, courts, j) ==
    IF j > Len(courts) THEN NoneFound
    ELSE IF AllAvailable(v, av, courts[j], ct) THEN CourtAndTime(courts[j], ct)
    ELSE ScanCourts(v, av, ct, courts, j + 1)

RECURSIVE ScanTimes(_, _, _, _, _)
ScanTimes(v, av, times, courts, i) ==
    IF i > Len(times) THEN NoneFound
    ELSE LET r == ScanCourts(v, av, times[i], courts, 1)
         IN  IF r # NoneFound THEN r ELSE ScanTimes(v, av, times, courts, i + 1)

\* The blockAvailable calls of the search, in the order they are made, each as
\* << index of the window, index of the court, index of the sub-slot >>.
SubSlotTokens(v, ct) ==
    IF v = "sched" THEN getTimeRows(ct) ELSE getStartTimesForDate(ct, requestDate)
TokenAvailable(v, av, court, tok) ==
    IF v = "sched" THEN blockAvailable(av, court, tok) ELSE blockAvailablePac(av, court, tok)

\* Mutant: all([...]) over a list, every sub-slot of the pair is queried.
AllQueries_ListFirst(v, av, courts, ct, i, j) ==
    [k \in 1..Len(SubSlotTokens(v, ct)) |-> << i, j, k >>]

\* all(... for tr in timeRows) over a generator: it stops at the first False.
RECURSIVE AllQueriesFrom(_, _, _, _, _, _, _)
AllQueriesFrom(v, av, courts, ct, i, j, k) ==
    IF k > Len(SubSlotTokens(v, ct)) THEN << >>
    ELSE << << i, j, k >> >> \o
         (IF TokenAvailable(v, av, courts[j], SubSlotTokens(v, ct)[k])
          THEN AllQueriesFrom(v, av, courts, ct, i, j, k + 1)
          ELSE << >>)

AllQueries(v, av, courts, ct, i, j) == AllQueriesFrom(v, av, courts, ct, i, j, 1)

RECURSIVE CourtQueries(_, _, _, _, _, _)
CourtQueries(v, av, ct, courts, i, j) ==
    IF j > Len(courts) THEN << >>
    ELSE AllQueries(v, av, courts, ct, i, j) \o
         (IF AllAvailable(v, av, courts[j], ct) THEN << >>
          ELSE CourtQueries(v, av, ct, courts, i, j + 1))

RECURSIVE TimeQueries(_, _, _, _, _)
TimeQueries(v, av, times, courts, i) ==
    IF i > Len(times) THEN << >>
    ELSE CourtQueries(v, av, times[i], courts, i, 1) \o
         (IF ScanCourts(v, av, times[i], courts, 1) # NoneFound THEN << >>
          ELSE TimeQueries(v, av, times, courts, i + 1))

findFirstAvailableCourtQueries(v, av, times, courts) == TimeQueries(v, av, times, courts, 1)

\* Mutant: courts as the outer loop, time windows as the inner loop.
RECURSIVE ScanTimesOfCourt(_, _, _, _, _)
ScanTimesOfCourt(v, av, times, court, i) ==
    IF i > Len(times) THEN NoneFound
    ELSE IF AllAvailable(v, av, court, times[i]) THEN CourtAndTime(court, times[i])
    ELSE ScanTimesOfCourt(v, av, times, court, i + 1)

RECURSIVE ScanCourtMajor(_, _, _, _, _)
ScanCourtMajor(v, av, times, courts, j) ==
    IF j > Len(courts) THEN NoneFound
    ELSE LET r == ScanTimesOfCourt(v, av, times, courts[j], 1)
         IN  IF r # NoneFound THEN r ELSE ScanCourtMajor(v, av, times, courts, j + 1)

findFirstAvailableCourt_CourtMajor(v, av, times, courts) ==
    ScanCourtMajor(v, av, times, courts, 1)

\* The pair found, or NoneFound where the code raises PacException(NO_COURTS_MSG).
findFirstAvailableCourt(v, av, times, courts) == ScanTimes(v, av, times, courts, 1)

\* ---------------------------------------------------------- exceptions
NoExc == [kind |-> "None", msg |-> << >>]
PacException(msg) == [kind |-> "PacException", msg |-> msg]
\* PacException.fromXcp: "Unable to <unableMsg>, <class>: <msg>"
fromXcp(unableMsg, xcption) == PacException(<< "Unable to", unableMsg, xcption >>)
\* PacException.fromAlert: "Unable to <unableMsg> due to: <alertText>"
fromAlert(unableMsg, alertText) ==
    PacException(<< "Unable to", unableMsg, "due to" >> \o alertText)
\* An exception that is no PacException and that no handler of the program catches.
OtherException(name) == [kind |-> "Other", msg |-> << name >>]

Raised(x) == x.kind # "None"

\* ------------------------------------------------------ the object's fields
InitSelf == [ requestDate |-> requestDate,
              webDriver |-> FALSE,
              loggedIn |-> FALSE,
              logOutHref |-> FALSE,
              reservationStarted |-> FALSE,
              resForm |-> FALSE,
              found |-> NoneFound,
              playerHasAlreadyReserved |-> FALSE,
              retryLater |-> FALSE,
              playerItr |-> -1,
              player2 |-> -1 ]

\* Mutant: the loop also goes round again while a reservation is pending.
needsToTryAgain_WhilePending(obj) == obj.playerHasAlreadyReserved \/ obj.reservationStarted

needsToTryAgain(obj) == obj.playerHasAlreadyReserved

\* A call made, who made it and how it ended: "ok", "PacException" or "Other".
Call(op, by, res) == << op, by, res >>

\* The attempt history with its last started attempt marked `as`.
RECURSIVE MarkLast(_, _, _)
MarkLast(att, i, as) ==
    IF i = 0 THEN att
    ELSE IF att[i] = "started" THEN [att EXCEPT ![i] = as]
    ELSE MarkLast(att, i - 1, as)

\* The running state of a handler: the object, the histories, the exception it
\* raised (if any) and the number of port calls it has made so far.
Frame(obj, cs, att, sess, lk) ==
    [self |-> obj, calls |-> cs, attempts |-> att, siteSession |-> sess, lookups |-> lk,
     exc |-> NoExc, n |-> 0, msgs |-> << >>]

\* A call of the selenium port made by `by`: it raises a WebDriverException, which
\* the caller turns into a PacException, when it is the fp-th port call of the
\* running handler (fp = 0: none fails).
Port(h, op, by, fp, unableMsg) ==
    IF h.n + 1 = fp
    THEN [h EXCEPT !.n = @ + 1,
                   !.exc = fromXcp(unableMsg, "WebDriverException"),
                   !.calls = Append(@, Call(op, by, "PacException"))]
    ELSE [h EXCEPT !.n = @ + 1,
                   !.calls = Append(@, Call(op, by, "ok"))]

\* The entry of a call whose result is known when it returns: Enter at the call,
\* Leave(h, Len of the calls before Enter + 1) at the return.
Enter(h, op, by) == [h EXCEPT !.calls = Append(@, Call(op, by, "running"))]
Leave(h, idx) ==
    [h EXCEPT !.calls[idx][3] = IF Raised(h.exc) THEN h.exc.kind ELSE "ok"]

\* ------------------------------------------------- cancelPendingReservation
\* sched: clickAndLoad on the Cancel Reservation link, then clear the flag.
\* The port call fails when it is the fp-th port call of the running handler.
cancelPendingReservation(h, by, fp) ==
    IF h.n + 1 = fp
    THEN [h EXCEPT !.n = @ + 1,
                   !.exc = fromXcp("request cancel pending reservation", "WebDriverException"),
                   !.calls = Append(@, Call("cancelPendingReservation", by, "PacException"))]
    ELSE [h EXCEPT !.n = @ + 1,
                   !.self.reservationStarted = FALSE,
                   !.attempts = MarkLast(@, Len(@), "cancelled"),
                   !.calls = Append(@, Call("cancelPendingReservation", by, "ok"))]

\* pac: click the form's reset button and wait for the form to go; with resForm
\* None the attribute access raises AttributeError, which nothing catches.
cancelPendingReservationPac(h, by, fp) ==
    IF ~h.self.resForm
    THEN [h EXCEPT !.exc = OtherException("AttributeError"),
                   !.calls = Append(@, Call("cancelPendingReservation", by, "Other"))]
    ELSE IF h.n + 1 = fp
    THEN [h EXCEPT !.n = @ + 1,
                   !.exc = fromXcp("cancel pending reservation", "WebDriverException"),
                   !.calls = Append(@, Call("cancelPendingReservation", by, "PacException"))]
    ELSE [h EXCEPT !.n = @ + 1,
                   !.self.resForm = FALSE,
                   !.attempts = MarkLast(@, Len(@), "cancelled"),
                   !.calls = Append(@, Call("cancelPendingReservation", by, "ok"))]

\* ------------------------------------------------------------------ logOut
LogOutResults == { "ok", "PacException", "Other" }

\* sched: current_url is read outside the try, so its failure is no PacException.
\* Mutant: a logOut that succeeds leaves the loggedIn flag set.
logOut_KeepsFlag(h, by, res) ==
    IF res = "Other"
    THEN [h EXCEPT !.exc = OtherException("WebDriverException"),
                   !.calls = Append(@, Call("logOut", by, "Other"))]
    ELSE IF res = "PacException"
    THEN [h EXCEPT !.exc = fromXcp("log-out via", "WebDriverException"),
                   !.calls = Append(@, Call("logOut", by, "PacException"))]
    ELSE [h EXCEPT !.siteSession = FALSE,
                   !.calls = Append(@, Call("logOut", by, "ok"))]

logOut(h, by, res) ==
    IF res = "Other"
    THEN [h EXCEPT !.exc = OtherException("WebDriverException"),
                   !.calls = Append(@, Call("logOut", by, "Other"))]
    ELSE IF res = "PacException"
    THEN [h EXCEPT !.exc = fromXcp("log-out via", "WebDriverException"),
                   !.calls = Append(@, Call("logOut", by, "PacException"))]
    ELSE [h EXCEPT !.self.loggedIn = FALSE,
                   !.siteSession = FALSE,
                   !.calls = Append(@, Call("logOut", by, "ok"))]

logOutPac(h, by, res) ==
    IF res # "ok"
    THEN [h EXCEPT !.exc = fromXcp("log out", "WebDriverException"),
                   !.calls = Append(@, Call("logOut", by, "PacException"))]
    ELSE [h EXCEPT !.self.logOutHref = FALSE,
                   !.siteSession = FALSE,
                   !.calls = Append(@, Call("logOut", by, "ok"))]

\* -------------------------------------------------------- handleErrorWindow
\* The texts a displayed error window can hold.
DialogTexts == { "has already reserved", "requires 1 additional player", "too early" }
DialogSeqs == UNION { [1..n -> DialogTexts] : n \in 0..MaxDialogs }

\* sched: "has already reserved" in errorMsg or "minutes between reservations" in errorMsg
IsConflict(errorMsg) ==
    errorMsg \in { "has already reserved", "minutes between reservations" }

\* pac: "requires 1 additional player" in errorMsg or "not allowed on this reservation" in errorMsg
IsConflictPac(errorMsg) ==
    errorMsg \in { "requires 1 additional player", "not allowed on this reservation" }

\* clickAndLoad("dismiss error", ...) of sched; the click and wait of pac.
Dismiss(h, by, fp, unableMsg) == Port(h, "dismiss", by, fp, unableMsg)

\* The for loop over the displayed error windows, from window i on.
RECURSIVE ErrWins(_, _, _, _)
ErrWins(h, dialogs, i, fp) ==
    IF Raised(h.exc) \/ i > Len(dialogs) THEN h
    ELSE IF IsConflict(dialogs[i])
    THEN LET h1 == [h EXCEPT !.self.playerHasAlreadyReserved = TRUE]
             h2 == Dismiss(h1, "handleErrorWindow", fp, "request dismiss error")
             h3 == IF Raised(h2.exc) THEN h2
                   ELSE cancelPendingReservation(h2, "handleErrorWindow", fp)
         IN  ErrWins(h3, dialogs, i + 1, fp)
    ELSE ErrWins([h EXCEPT !.msgs = Append(@, dialogs[i])], dialogs, i + 1, fp)

\* Mutant: a conflict dialog is dismissed but the pending reservation is not
\* cancelled.
RECURSIVE ErrWins_NoCancel(_, _, _, _)
ErrWins_NoCancel(h, dialogs, i, fp) ==
    IF Raised(h.exc) \/ i > Len(dialogs) THEN h
    ELSE IF IsConflict(dialogs[i])
    THEN LET h1 == [h EXCEPT !.self.playerHasAlreadyReserved = TRUE]
             h2 == Dismiss(h1, "handleErrorWindow", fp, "request dismiss error")
         IN  ErrWins_NoCancel(h2, dialogs, i + 1, fp)
    ELSE ErrWins_NoCancel([h EXCEPT !.msgs = Append(@, dialogs[i])], dialogs, i + 1, fp)

handleErrorWindow_NoCancel(h, unableMsg, dialogs, fp) ==
    LET h0 == Enter([h EXCEPT !.msgs = << >>], "handleErrorWindow", "reserveCourt")
        h1 == ErrWins_NoCancel(h0, dialogs, 1, fp)
        h2 == IF ~Raised(h1.exc) /\ h1.msgs # << >>
              THEN [h1 EXCEPT !.exc = fromAlert(unableMsg, h1.msgs)]
              ELSE h1
    IN  Leave(h2, Len(h.calls) + 1)

handleErrorWindow(h, unableMsg, dialogs, fp) ==
    LET h0 == Enter([h EXCEPT !.msgs = << >>], "handleErrorWindow", "reserveCourt")
        h1 == ErrWins(h0, dialogs, 1, fp)
        h2 == IF ~Raised(h1.exc) /\ h1.msgs # << >>
              THEN [h1 EXCEPT !.exc = fromAlert(unableMsg, h1.msgs)]
              ELSE h1
    IN  Leave(h2, Len(h.calls) + 1)

RECURSIVE ErrWinsPac(_, _, _, _)
ErrWinsPac(h, dialogs, i, fp) ==
    IF Raised(h.exc) \/ i > Len(dialogs) THEN h
    ELSE LET h1 == Dismiss(h, "handleErrorWindow", fp, "dismiss error")
         IN  IF Raised(h1.exc)
             THEN [h1 EXCEPT !.exc = PacException(<< "Unable to", "dismiss error:", dialogs[i],
                                                     "WebDriverException" >>)]
             ELSE IF IsConflictPac(dialogs[i])
             THEN LET h2 == [h1 EXCEPT !.self.playerHasAlreadyReserved = TRUE]
                  IN  ErrWinsPac(cancelPendingReservationPac(h2, "handleErrorWindow", fp),
                                 dialogs, i + 1, fp)
             ELSE ErrWinsPac([h1 EXCEPT !.msgs = Append(@, dialogs[i])], dialogs, i + 1, fp)

handleErrorWindowPac(h, unableMsg, dialogs, fp) ==
    LET h0 == Enter([h EXCEPT !.msgs = << >>], "handleErrorWindow", "reserveCourt")
        h1 == ErrWinsPac(h0, dialogs, 1, fp)
        h2 == IF ~Raised(h1.exc) /\ h1.msgs # << >>
              THEN [h1 EXCEPT !.exc = fromAlert(unableMsg, h1.msgs)]
              ELSE h1
    IN  Leave(h2, Len(h.calls) + 1)

\* ------------------------------------------------------------ reserveCourt
\* sched: open the summary, look for error windows, then confirm (or, in test
\* mode, only inspect the confirm button) unless a player has already reserved.
\* Mutant: the test flag is ignored, the confirm button is clicked.
reserveCourt_TestConfirms(h, test, dialogs, fp) ==
    LET h0 == Enter(h, "reserveCourt", "main")
        h1 == Port(h0, "summary", "reserveCourt", fp, "request reservation summary")
        h2 == IF Raised(h1.exc) THEN h1
              ELSE handleErrorWindow(h1, "verify reservation is good", dialogs, fp)
        h3 == IF Raised(h2.exc) \/ needsToTryAgain(h2.self) THEN h2
              ELSE LET h4 == Port(h2, "confirm", "reserveCourt", fp,
                                  "request confirm reservation")
                   IN  IF Raised(h4.exc) THEN h4
                       ELSE [h4 EXCEPT !.self.reservationStarted = FALSE,
                                       !.attempts = MarkLast(@, Len(@), "confirmed")]
    IN  Leave(h3, Len(h.calls) + 1)

\* Mutant: the confirm button is clicked before the error windows are looked for.
reserveCourt_ConfirmFirst(h, test, dialogs, fp) ==
    LET h0 == Enter(h, "reserveCourt", "main")
        h1 == Port(h0, "summary", "reserveCourt", fp, "request reservation summary")
        h2 == IF Raised(h1.exc) \/ test THEN h1
              ELSE Port(h1, "confirm", "reserveCourt", fp, "request confirm reservation")
        h3 == IF Raised(h2.exc) THEN h2
              ELSE handleErrorWindow(h2, "verify reservation is good", dialogs, fp)
        h4 == IF Raised(h3.exc) \/ needsToTryAgain(h3.self) \/ test THEN h3
              ELSE [h3 EXCEPT !.self.reservationStarted = FALSE,
                              !.attempts = MarkLast(@, Len(@), "confirmed")]
    IN  Leave(h4, Len(h.calls) + 1)

\* Mutant: the confirmation leaves reservationStarted set.
reserveCourt_KeepsMarker(h, test, dialogs, fp) ==
    LET h0 == Enter(h, "reserveCourt", "main")
        h1 == Port(h0, "summary", "reserveCourt", fp, "request reservation summary")
        h2 == IF Raised(h1.exc) THEN h1
              ELSE handleErrorWindow(h1, "verify reservation is good", dialogs, fp)
        h3 == IF Raised(h2.exc) \/ needsToTryAgain(h2.self) THEN h2
              ELSE IF test
              THEN Port(h2, "inspect", "reserveCourt", fp, "verify reservation is good")
              ELSE LET h4 == Port(h2, "confirm", "reserveCourt", fp,
                                  "request confirm reservation")
                   IN  IF Raised(h4.exc) THEN h4
                       ELSE [h4 EXCEPT !.attempts = MarkLast(@, Len(@), "confirmed")]
    IN  Leave(h3, Len(h.calls) + 1)

reserveCourt(h, test, dialogs, fp) ==
    LET h0 == Enter(h, "reserveCourt", "main")
        h1 == Port(h0, "summary", "reserveCourt", fp, "request reservation summary")
        h2 == IF Raised(h1.exc) THEN h1
              ELSE handleErrorWindow(h1, "verify reservation is good", dialogs, fp)
        h3 == IF Raised(h2.exc) \/ needsToTryAgain(h2.self) THEN h2
              ELSE IF test
              THEN Port(h2, "inspect", "reserveCourt", fp, "verify reservation is good")
              ELSE LET h4 == Port(h2, "confirm", "reserveCourt", fp,
                                  "request confirm reservation")
                   IN  IF Raised(h4.exc) THEN h4
                       ELSE [h4 EXCEPT !.self.reservationStarted = FALSE,
                                       !.attempts = MarkLast(@, Len(@), "confirmed")]
    IN  Leave(h3, Len(h.calls) + 1)

\* pac: confirm first, then look for error windows; test mode only inspects.
reserveCourtPac(h, test, dialogs, fp) ==
    LET h0 == Enter(h, "reserveCourt", "main")
        h3 == IF needsToTryAgain(h0.self) THEN h0
              ELSE IF test
              THEN Port(h0, "inspect", "reserveCourt", fp, "verify reservation is good")
              ELSE LET h1 == Port(h0, "confirm", "reserveCourt", fp, "confirm reservation")
                       h2 == IF Raised(h1.exc) THEN h1
                             ELSE Port(h1, "confirmWait", "reserveCourt", fp,
                                       "confirm reservation")
                       h4 == IF Raised(h2.exc) THEN h2
                             ELSE handleErrorWindowPac(h2, "confirm reservation is good",
                                                       dialogs, fp)
                   IN  IF Raised(h4.exc) THEN h4
                       ELSE [h4 EXCEPT !.self.resForm = FALSE,
                                       !.attempts = IF needsToTryAgain(h4.self) THEN @
                                                    ELSE MarkLast(@, Len(@), "confirmed")]
    IN  Leave(h3, Len(h.calls) + 1)

\* ---------------------------------------------------------------- __exit__
\* try: cancel a pending reservation; finally: log out an open session.
\* The exception that leaves the guard is the one of logOut, else the one of
\* the cancel, else (the guard returns None) the one that entered it.
\* Mutant: the guard logs out first and cancels afterwards.
guardExit_LogOutFirst(h, cancelFails, lo) ==
    LET h1 == IF h.self.loggedIn
              THEN logOut([h EXCEPT !.exc = NoExc], "__exit__", lo)
              ELSE [h EXCEPT !.exc = NoExc]
        h2 == IF h1.self.reservationStarted
              THEN cancelPendingReservation([h1 EXCEPT !.exc = NoExc], "__exit__",
                                            IF cancelFails THEN 1 ELSE 0)
              ELSE [h1 EXCEPT !.exc = NoExc]
    IN  [h2 EXCEPT !.exc = IF Raised(h2.exc) THEN h2.exc
                           ELSE IF Raised(h1.exc) THEN h1.exc ELSE h.exc]

\* Mutant: no finally, a failed cancel leaves the guard at once.
guardExit_FailFast(h, cancelFails, lo) ==
    LET h1 == IF h.self.reservationStarted
              THEN cancelPendingReservation([h EXCEPT !.exc = NoExc], "__exit__",
                                            IF cancelFails THEN 1 ELSE 0)
              ELSE [h EXCEPT !.exc = NoExc]
    IN  IF Raised(h1.exc) THEN h1
        ELSE LET h2 == IF h1.self.loggedIn THEN logOut(h1, "__exit__", lo) ELSE h1
             IN  [h2 EXCEPT !.exc = IF Raised(h2.exc) THEN h2.exc ELSE h.exc]

\* Mutant: the guard logs out whether or not the session is marked open.
guardExit_AlwaysLogOut(h, cancelFails, lo) ==
    LET h1 == IF h.self.reservationStarted
              THEN cancelPendingReservation(h, "__exit__", IF cancelFails THEN 1 ELSE 0)
              ELSE h
        h2 == logOut([h1 EXCEPT !.exc = NoExc], "__exit__", lo)
    IN  [h2 EXCEPT !.exc = IF Raised(h2.exc) THEN h2.exc ELSE h1.exc]

\* Mutant: the guard only logs out, a pending reservation is left alone.
guardExit_NoCancel(h, cancelFails, lo) ==
    LET h2 == IF h.self.loggedIn
              THEN logOut([h EXCEPT !.exc = NoExc], "__exit__", lo)
              ELSE [h EXCEPT !.exc = NoExc]
    IN  [h2 EXCEPT !.exc = IF Raised(h2.exc) THEN h2.exc ELSE h.exc]

guardExit(h, cancelFails, lo) ==
    LET h1 == IF h.self.reservationStarted
              THEN cancelPendingReservation(h, "__exit__", IF cancelFails THEN 1 ELSE 0)
              ELSE h
        h2 == IF h1.self.loggedIn
              THEN logOut([h1 EXCEPT !.exc = NoExc], "__exit__", lo)
              ELSE [h1 EXCEPT !.exc = NoExc]
    IN  [h2 EXCEPT !.exc = IF Raised(h2.exc) THEN h2.exc ELSE h1.exc]

guardExitPac(h, cancelFails, lo) ==
    LET h1 == IF h.self.resForm
              THEN cancelPendingReservationPac(h, "__exit__", IF cancelFails THEN 1 ELSE 0)
              ELSE h
        h2 == IF h1.self.logOutHref
              THEN logOutPac([h1 EXCEPT !.exc = NoExc], "__exit__", lo)
              ELSE [h1 EXCEPT !.exc = NoExc]
    IN  [h2 EXCEPT !.exc = IF Raised(h2.exc) THEN h2.exc ELSE h1.exc]

\* ------------------------------------------------------ the other methods
Result(h, op, by) ==
    [h EXCEPT !.calls = Append(@, Call(op, by, IF Raised(h.exc) THEN h.exc.kind ELSE "ok"))]

openBrowser(h, ok) ==
    Result(IF ok THEN [h EXCEPT !.self.webDriver = TRUE]
           ELSE [h EXCEPT !.exc = fromXcp("open browser", "WebDriverException")],
           "openBrowser", "main")

LogInOutcomes == { "ok", "failForm", "failWait" }

\* Mutant: the log-in reads the first person without advancing the iterator.
logIn_PeeksSelf(h, o) ==
    Result(IF o = "failForm"
           THEN [h EXCEPT !.exc = fromXcp("find log-in form", "WebDriverException")]
           ELSE IF o = "failWait"
           THEN [h EXCEPT !.self.playerItr = 0,
                          !.exc = fromXcp("complete log-in", "TimeoutException")]
           ELSE [h EXCEPT !.self.playerItr = 0,
                          !.self.loggedIn = TRUE,
                          !.siteSession = TRUE],
           "logIn", "main")

\* sched: the iterator is created once the form is found, its first element
\* ("self") is consumed to log in, loggedIn is set after the post-login marker.
logIn(h, o) ==
    Result(IF o = "failForm"
           THEN [h EXCEPT !.exc = fromXcp("find log-in form", "WebDriverException")]
           ELSE IF o = "failWait"
           THEN [h EXCEPT !.self.playerItr = 1,
                          !.exc = fromXcp("complete log-in", "TimeoutException")]
           ELSE [h EXCEPT !.self.playerItr = 1,
                          !.self.loggedIn = TRUE,
                          !.siteSession = TRUE],
           "logIn", "main")

LogInOutcomesPac == { "ok", "failForm", "failWait", "failHover", "failHref" }

\* pac: logOutHref is stored after the post-login marker and the hover.
logInPac(h, o) ==
    Result(IF o = "failForm"
           THEN [h EXCEPT !.exc = fromXcp("find log-in form", "WebDriverException")]
           ELSE IF o = "failWait"
           THEN [h EXCEPT !.self.playerItr = 1,
                          !.exc = fromXcp("submit log-in form", "TimeoutException")]
           ELSE IF o = "failHover"
           THEN [h EXCEPT !.self.playerItr = 1,
                          !.siteSession = TRUE,
                          !.exc = fromXcp("hover over my account", "WebDriverException")]
           ELSE IF o = "failHref"
           THEN [h EXCEPT !.self.playerItr = 1,
                          !.siteSession = TRUE,
                          !.exc = fromXcp("store log out reference", "WebDriverException")]
           ELSE [h EXCEPT !.self.playerItr = 1,
                          !.siteSession = TRUE,
                          !.self.logOutHref = TRUE],
           "logIn", "main")

NavigateOutcomes == { "ok", "fail", "ValueError" }

\* strptime of the displayed schedule date is outside every handler's reach:
\* its ValueError is no PacException.
navigateToSchedule(h, o) ==
    Result(IF o = "fail"
           THEN [h EXCEPT !.exc = fromXcp("read initial schedule date", "WebDriverException")]
           ELSE IF o = "ValueError"
           THEN [h EXCEPT !.exc = OtherException("ValueError")]
           ELSE h,
           "navigateToSchedule", "main")

navigateToSchedulePac(h, o) ==
    Result(IF o = "fail"
           THEN [h EXCEPT !.exc = fromXcp("book a court on home page", "WebDriverException")]
           ELSE IF o = "ValueError"
           THEN [h EXCEPT !.exc = OtherException("ValueError")]
           ELSE h,
           "navigateToSchedule", "main")

\* sched: clickAndLoad, then the flag.
startReservation(h, fp) ==
    LET h1 == Port(h, "startReservation", "main", fp,
                   "request reserve court on schedule page")
    IN  IF Raised(h1.exc) THEN h1
        ELSE [h1 EXCEPT !.self.reservationStarted = TRUE,
                        !.attempts = Append(@, "started")]

\* ---------------------------------------------------------- add a player
\* found: the name becomes clickable and is clicked (pac: selected);
\* timeout: the wait for the name times out; error: the entry field cannot be
\* keyed; clickTimeout: the name is found, its click raises TimeoutException;
\* selectTimeout: the name is found and clicked, the wait of selectDesiredItem
\* for it to disappear times out; notInList: no list item has the name.
LookupResponses == { "found", "timeout", "clickTimeout", "error" }
LookupResponsesPac == { "found", "timeout", "selectTimeout", "error", "notInList" }

\* The while True loop of addPlayer (sched) and selectPlayer (pac): resp[k] is
\* what the site does at the k-th try; retrys counts the timeouts so far.
RECURSIVE addPlayer(_, _, _)
addPlayer(h, resp, retrys) ==
    LET r == resp[retrys + 1]
        h1 == [h EXCEPT !.lookups = retrys + 1]
    IN  IF r = "found" THEN h1
        ELSE IF r \in { "timeout", "clickTimeout" }
        THEN IF retrys + 1 = MAX_TRYS
             THEN [h1 EXCEPT !.exc = fromXcp(IF r = "timeout" THEN "find player"
                                             ELSE "add player to reservation",
                                             "TimeoutException")]
             ELSE addPlayer(h, resp, retrys + 1)
        ELSE [h1 EXCEPT !.exc = fromXcp("key-in player for reservation",
                                        "WebDriverException")]

RECURSIVE selectPlayer(_, _, _)
selectPlayer(h, resp, retrys) ==
    LET r == resp[retrys + 1]
        h1 == [h EXCEPT !.lookups = retrys + 1]
    IN  IF r = "found" THEN h1
        ELSE IF r = "notInList"
        THEN [h1 EXCEPT !.exc = PacException(<< "Unable to find player" >>)]
        ELSE IF r \in { "timeout", "selectTimeout" }
        THEN IF retrys + 1 = MAX_TRYS
             THEN [h1 EXCEPT !.exc = fromXcp(IF r = "timeout" THEN "find player"
                                             ELSE "add player to reservation",
                                             "TimeoutException")]
             ELSE selectPlayer(h, resp, retrys + 1)
        ELSE [h1 EXCEPT !.exc = fromXcp("key-in player for reservation",
                                        "WebDriverException")]

\* Mutant: a candidate that cannot be looked up is skipped for the next one.
RECURSIVE NextCandidate(_, _)
NextCandidate(h, resp) ==
    IF h.self.playerItr < NumPeople
    THEN LET player == people[h.self.playerItr + 1]
             h1 == [h EXCEPT !.self.playerItr = @ + 1,
                             !.self.playerHasAlreadyReserved = FALSE]
             h2 == addPlayer(h1, resp, 0)
         IN  IF Raised(h2.exc) THEN NextCandidate(h1, resp)
             ELSE [h2 EXCEPT !.self.player2 = player]
    ELSE [h EXCEPT !.lookups = 0, !.exc = PacException(<< NEED_PLAYER_MSG >>)]

addPlayers_NextCandidate(h, resp, waitOk) ==
    Result(NextCandidate(h, resp), "addPlayers", "main")

\* Mutant: with the iterator exhausted the method returns instead of raising.
addPlayers_ExhaustedSilent(h, resp, waitOk) ==
    Result(IF h.self.playerItr < NumPeople
           THEN LET player == people[h.self.playerItr + 1]
                    h1 == [h EXCEPT !.self.playerItr = @ + 1,
                                    !.self.playerHasAlreadyReserved = FALSE]
                    h2 == addPlayer(h1, resp, 0)
                IN  IF Raised(h2.exc) THEN h2
                    ELSE IF ~waitOk
                    THEN [h2 EXCEPT !.exc = fromXcp("see updated player list",
                                                    "TimeoutException")]
                    ELSE [h2 EXCEPT !.self.player2 = player]
           ELSE [h EXCEPT !.lookups = 0],
           "addPlayers", "main")

\* sched: take the next person of the iterator, look the player up, wait for the
\* entry field, remember the player.
addPlayers(h, resp, waitOk) ==
    Result(IF h.self.playerItr < NumPeople
           THEN LET player == people[h.self.playerItr + 1]
                    h1 == [h EXCEPT !.self.playerItr = @ + 1,
                                    !.self.playerHasAlreadyReserved = FALSE]
                    h2 == addPlayer(h1, resp, 0)
                IN  IF Raised(h2.exc) THEN h2
                    ELSE IF ~waitOk
                    THEN [h2 EXCEPT !.exc = fromXcp("see updated player list",
                                                    "TimeoutException")]
                    ELSE [h2 EXCEPT !.self.player2 = player]
           ELSE [h EXCEPT !.lookups = 0, !.exc = PacException(<< NEED_PLAYER_MSG >>)],
           "addPlayers", "main")

addPlayerPac(h, resp) ==
    Result(IF h.self.playerItr < NumPeople
           THEN LET player == people[h.self.playerItr + 1]
                    h1 == [h EXCEPT !.self.playerItr = @ + 1,
                                    !.self.playerHasAlreadyReserved = FALSE]
                    h2 == selectPlayer(h1, resp, 0)
                IN  IF Raised(h2.exc) THEN h2
                    ELSE [h2 EXCEPT !.self.player2 = player]
           ELSE [h EXCEPT !.lookups = 0, !.exc = PacException(<< NEED_PLAYER_MSG >>)],
           "addPlayer", "main")

\* ------------------------------------------------------ selectAvailableCourt
SelectOutcomes == { "ok", "findFails", "clickFails", "alert" }

\* Mutant: when no pair qualifies the method returns instead of raising.
selectAvailableCourt_NoRaise(h, av, times, courts, o) ==
    LET r == findFirstAvailableCourt("sched", av, times, courts)
    IN  Result(IF o = "findFails"
               THEN [h EXCEPT !.exc = fromXcp("find court time block", "WebDriverException")]
               ELSE [h EXCEPT !.self.found = r],
               "selectAvailableCourt", "main")

\* Mutant: handleAlert dismisses the alert and sets retryLater but does not raise.
selectAvailableCourt_AlertSwallowed(h, av, times, courts, o) ==
    LET r == findFirstAvailableCourt("sched", av, times, courts)
    IN  Result(IF o = "findFails"
               THEN [h EXCEPT !.exc = fromXcp("find court time block", "WebDriverException")]
               ELSE IF r = NoneFound
               THEN [h EXCEPT !.exc = PacException(<< NO_COURTS_MSG >>)]
               ELSE IF o = "clickFails"
               THEN [h EXCEPT !.self.found = r,
                              !.exc = fromXcp("select court time block", "WebDriverException")]
               ELSE IF o = "alert"
               THEN [h EXCEPT !.self.found = r,
                              !.self.retryLater = TRUE,
                              !.calls = Append(@, Call("handleAlert", "selectAvailableCourt",
                                                       "ok"))]
               ELSE [h EXCEPT !.self.found = r],
               "selectAvailableCourt", "main")

\* sched: search, then click every time row of the pair found; handleAlert after
\* each click dismisses an alert, sets retryLater and raises.
selectAvailableCourt(h, av, times, courts, o) ==
    LET r == findFirstAvailableCourt("sched", av, times, courts)
    IN  Result(IF o = "findFails"
               THEN [h EXCEPT !.exc = fromXcp("find court time block", "WebDriverException")]
               ELSE IF r = NoneFound
               THEN [h EXCEPT !.exc = PacException(<< NO_COURTS_MSG >>)]
               ELSE IF o = "clickFails"
               THEN [h EXCEPT !.self.found = r,
                              !.exc = fromXcp("select court time block", "WebDriverException")]
               ELSE IF o = "alert"
               THEN [h EXCEPT !.self.found = r,
                              !.self.retryLater = TRUE,
                              !.calls = Append(@, Call("handleAlert", "selectAvailableCourt",
                                                       "PacException")),
                              !.exc = fromAlert("select court time block", << "alert" >>)]
               ELSE [h EXCEPT !.self.found = r],
               "selectAvailableCourt", "main")

SelectOutcomesPac == { "ok", "findFails", "clickFails" }

\* pac: search, click the first start time, wait for the dialog, keep its form.
selectAvailableCourtPac(h, av, times, courts, o) ==
    LET r == findFirstAvailableCourt("pac", av, times, courts)
    IN  Result(IF o = "findFails"
               THEN [h EXCEPT !.exc = fromXcp("find court time block", "WebDriverException")]
               ELSE IF r = NoneFound
               THEN [h EXCEPT !.exc = PacException(<< NO_COURTS_MSG >>)]
               ELSE IF o = "clickFails"
               THEN [h EXCEPT !.self.found = r,
                              !.exc = fromXcp("select court start time", "WebDriverException")]
               ELSE [h EXCEPT !.self.found = r,
                              !.self.resForm = TRUE,
                              !.attempts = Append(@, "started")],
               "selectAvailableCourt", "main")

setReservationParameters(h, ok) ==
    Result(IF ok THEN h
           ELSE [h EXCEPT !.exc = fromXcp("select reservation type", "WebDriverException")],
           "setReservationParameters", "main")

\* ------------------------------------------------------- the main programs
\* Mutant: the slot is selected before the co-participant is added.
LoopOrder_SlotFirst == << "startReservation", "selectAvailableCourt", "addPlayer", "reserveCourt" >>

\* pacium.py 69-72: the steps of one pass of the while loop, in order.
LoopOrder == << "startReservation", "addPlayer", "selectAvailableCourt", "reserveCourt" >>
\* paccontrol.py 474-477
LoopOrderPac == << "selectAvailableCourt", "setReservationParameters", "addPlayer",
                   "reserveCourt" >>

StepAfter(order, step) ==
    LET i == CHOOSE k \in 1..Len(order) : order[k] = step
    IN  IF i = Len(order) THEN "loopTest" ELSE order[i + 1]

Here == Frame(self, calls, attempts, siteSession, lookups)

\* A method of the with body returned or raised: the raise leaves the body.
Commit(h, okPc) ==
    /\ self' = h.self
    /\ calls' = h.calls
    /\ attempts' = h.attempts
    /\ siteSession' = h.siteSession
    /\ lookups' = h.lookups
    /\ exc' = h.exc
    /\ pc' = IF Raised(h.exc) THEN "exit" ELSE okPc
    /\ UNCHANGED << prefs, avail, needsReservation >>

\* openBrowser() is evaluated before the with body is entered: when it raises,
\* the guard does not run.
OpenBrowser ==
    /\ pc = "openBrowser"
    /\ \E ok \in BOOLEAN :
          LET h == openBrowser(Here, ok)
          IN  /\ Commit(h, "logIn")
              /\ ~ok => pc' = "top"

LogIn ==
    /\ pc = "logIn" /\ ver = "sched"
    /\ \E o \in LogInOutcomes : Commit(logIn(Here, o), "navigateToSchedule")

LogInPac ==
    /\ pc = "logIn" /\ ver = "pac"
    /\ \E o \in LogInOutcomesPac : Commit(logInPac(Here, o), "navigateToSchedule")

NavigateToSchedule ==
    /\ pc = "navigateToSchedule" /\ ver = "sched"
    /\ \E o \in NavigateOutcomes : Commit(navigateToSchedule(Here, o), "branch")

NavigateToSchedulePac ==
    /\ pc = "navigateToSchedule" /\ ver = "pac"
    /\ \E o \in NavigateOutcomes : Commit(navigateToSchedulePac(Here, o), "branch")

\* Mutant: the show flag is not looked at, the loop always starts.
MainIf_IgnoresShow ==
    /\ pc = "branch" /\ ver = "sched"
    /\ pc' = LoopOrder[1]
    /\ needsReservation' = TRUE
    /\ UNCHANGED << prefs, avail, self, exc, hist >>

\* pacium.py 63-66: show mode sleeps and leaves the with body, else the loop starts.
MainIf ==
    /\ pc = "branch" /\ ver = "sched"
    /\ pc' = IF showMode THEN "exit" ELSE LoopOrder[1]
    /\ needsReservation' = ~showMode
    /\ UNCHANGED << prefs, avail, self, exc, hist >>

MainIfPac ==
    /\ pc = "branch" /\ ver = "pac"
    /\ pc' = IF showMode THEN "exit" ELSE LoopOrderPac[1]
    /\ needsReservation' = ~showMode
    /\ UNCHANGED << prefs, avail, self, exc, hist >>

\* Mutant: the loop ends after one pass whatever needsToTryAgain says.
MainWhile_NoRetry ==
    /\ pc = "loopTest" /\ ver = "sched"
    /\ needsReservation' = FALSE
    /\ pc' = "exit"
    /\ UNCHANGED << prefs, avail, self, exc, hist >>

\* pacium.py 73-76: needsReservation = needsToTryAgain(), then the loop test.
MainWhile ==
    /\ pc = "loopTest" /\ ver = "sched"
    /\ needsReservation' = needsToTryAgain(self)
    /\ pc' = IF needsReservation' THEN LoopOrder[1] ELSE "exit"
    /\ UNCHANGED << prefs, avail, self, exc, hist >>

MainWhilePac ==
    /\ pc = "loopTest" /\ ver = "pac"
    /\ needsReservation' = needsToTryAgain(self)
    /\ pc' = IF needsReservation' THEN LoopOrderPac[1] ELSE "exit"
    /\ UNCHANGED << prefs, avail, self, exc, hist >>

StartReservation ==
    /\ pc = "startReservation" /\ ver = "sched"
    /\ \E fp \in 0..1 :
          Commit(startReservation(Here, fp), StepAfter(LoopOrder, "startReservation"))

\* pacium.py line 70, as written: addPlayer() lacks its argument playerName.
addPlayerNoArgument(h) ==
    Result([h EXCEPT !.exc = OtherException("TypeError")], "addPlayer", "main")

AddPlayers ==
    /\ pc = "addPlayer" /\ ver = "sched"
    /\ IF addPlayerCall = "TypeError"
       THEN Commit(addPlayerNoArgument(Here), StepAfter(LoopOrder, "addPlayer"))
       ELSE \E resp \in [1..MAX_TRYS -> LookupResponses], waitOk \in BOOLEAN :
               Commit(addPlayers(Here, resp, waitOk), StepAfter(LoopOrder, "addPlayer"))

AddPlayerPac ==
    /\ pc = "addPlayer" /\ ver = "pac"
    /\ \E resp \in [1..MAX_TRYS -> LookupResponsesPac] :
          Commit(addPlayerPac(Here, resp), StepAfter(LoopOrderPac, "addPlayer"))

SelectAvailableCourt ==
    /\ pc = "selectAvailableCourt" /\ ver = "sched"
    /\ \E o \in SelectOutcomes :
          Commit(selectAvailableCourt(Here, avail, timesInPreferredOrder,
                                      courtsInPreferredOrder, o),
                 StepAfter(LoopOrder, "selectAvailableCourt"))

SelectAvailableCourtPac ==
    /\ pc = "selectAvailableCourt" /\ ver = "pac"
    /\ \E o \in SelectOutcomesPac :
          Commit(selectAvailableCourtPac(Here, avail, timesInPreferredOrder,
                                         courtsInPreferredOrder, o),
                 StepAfter(LoopOrderPac, "selectAvailableCourt"))

SetReservationParameters ==
    /\ pc = "setReservationParameters" /\ ver = "pac"
    /\ \E ok \in BOOLEAN :
          Commit(setReservationParameters(Here, ok),
                 StepAfter(LoopOrderPac, "setReservationParameters"))

\* The port calls one reserveCourt can make: summary/confirm, confirm wait or
\* inspect, and a dismiss and a cancel for every error window.
MaxPortCalls == 2 + 2 * MaxDialogs

ReserveCourt ==
    /\ pc = "reserveCourt" /\ ver = "sched"
    /\ \E dialogs \in DialogSeqs, fp \in 0..MaxPortCalls :
          Commit(reserveCourt(Here, testMode, dialogs, fp),
                 StepAfter(LoopOrder, "reserveCourt"))

ReserveCourtPac ==
    /\ pc = "reserveCourt" /\ ver = "pac"
    /\ \E dialogs \in DialogSeqs, fp \in 0..MaxPortCalls :
          Commit(reserveCourtPac(Here, testMode, dialogs, fp),
                 StepAfter(LoopOrderPac, "reserveCourt"))

\* Leaving the with body, normally or by an exception, runs __exit__.
GuardDone(h) ==
    /\ self' = h.self
    /\ calls' = h.calls
    /\ attempts' = h.attempts
    /\ siteSession' = h.siteSession
    /\ exc' = h.exc
    /\ pc' = "top"
    /\ UNCHANGED << prefs, avail, needsReservation, lookups >>

Exit ==
    /\ pc = "exit" /\ ver = "sched"
    /\ \E cancelFails \in BOOLEAN, lo \in LogOutResults :
          GuardDone(guardExit([Here EXCEPT !.exc = exc], cancelFails, lo))

ExitPac ==
    /\ pc = "exit" /\ ver = "pac"
    /\ \E cancelFails \in BOOLEAN, lo \in LogOutResults :
          GuardDone(guardExitPac([Here EXCEPT !.exc = exc], cancelFails, lo))

\* pacium.py 78-80: a PacException is caught and logged; anything else goes on
\* past the top level.
Except ==
    /\ pc = "top" /\ ver = "sched"
    /\ pc' = "done"
    /\ calls' = IF exc.kind = "PacException"
                THEN Append(calls, Call("logging.error", "__main__", "ok"))
                ELSE calls
    /\ UNCHANGED << prefs, avail, self, needsReservation, exc, attempts, lookups,
                    siteSession >>

\* paccontrol.py 482-483: main has no handler, it returns or raises.
MainEnd ==
    /\ pc = "top" /\ ver = "pac"
    /\ pc' = "done"
    /\ UNCHANGED << prefs, avail, self, needsReservation, exc, hist >>

\* ------------------------------------------------------------ specification
\* The preferences of the workflow runs.
WorkflowTimes == << [startTime |-> 480, duration |-> 60],
                    [startTime |-> 510, duration |-> 30] >>

\* The schedules of the workflow runs: at most one court has free rows.  Which
\* court wins among several is settled by SpecSearch, over every table.
WorkflowTables ==
    { av \in AvailTables :
        \A c, d \in Courts :
            (\E row \in TimeRows : av[c, row]) /\ (\E row \in TimeRows : av[d, row]) => c = d }

InitRun ==
    /\ self = InitSelf
    /\ needsReservation = FALSE
    /\ exc = NoExc
    /\ calls = << >>
    /\ attempts = << >>
    /\ lookups = 0
    /\ siteSession = FALSE

Init ==
    /\ schDate = requestDate /\ diff = 0 /\ advances = 0
    /\ siteLookups = << >>
    /\ queries = << >>
    /\ subSlots = NoSubSlots
    /\ today = requestDate
    /\ dayOfWeekArg = "Sun"
    /\ ver \in { "sched", "pac" }
    /\ addPlayerCall \in IF ver = "sched" THEN { "TypeError", "addPlayers" }
                                          ELSE { "addPlayers" }
    /\ showMode \in BOOLEAN
    /\ testMode \in BOOLEAN
    /\ timesInPreferredOrder = WorkflowTimes
    /\ courtsInPreferredOrder = [i \in 1..NumCourts |-> i]
    /\ avail \in WorkflowTables
    /\ pc = "openBrowser"
    /\ InitRun

Next ==
    \/ OpenBrowser
    \/ LogIn \/ LogInPac
    \/ NavigateToSchedule \/ NavigateToSchedulePac
    \/ MainIf \/ MainIfPac
    \/ StartReservation
    \/ AddPlayers \/ AddPlayerPac
    \/ SelectAvailableCourt \/ SelectAvailableCourtPac
    \/ SetReservationParameters
    \/ ReserveCourt \/ ReserveCourtPac
    \/ MainWhile \/ MainWhilePac
    \/ Exit \/ ExitPac
    \/ Except \/ MainEnd

Spec == Init /\ [][Next]_vars

\* The run with its scheduling: the main program is one sequential thread, and
\* every call it makes returns or raises, so the step that is due is taken.
SpecLive == Init /\ [][Next]_vars /\ WF_vars(Next)

\* The object as selectAvailableCourt finds it when it calls the search: logged
\* in and, in sched, with a reservation started and the first candidate added.
SearchSelf ==
    IF ver = "sched"
    THEN [InitSelf EXCEPT !.webDriver = TRUE, !.loggedIn = TRUE,
                          !.reservationStarted = TRUE, !.playerItr = 2,
                          !.player2 = people[2]]
    ELSE [InitSelf EXCEPT !.webDriver = TRUE, !.logOutHref = TRUE, !.playerItr = 1]

\* Slot Search alone, over every bounded preference set and availability table.
InitSearch ==
    /\ schDate = requestDate /\ diff = 0 /\ advances = 0
    /\ siteLookups = << >>
    /\ queries = << >>
    /\ subSlots = NoSubSlots
    /\ today = requestDate
    /\ dayOfWeekArg = "Sun"
    /\ ver \in { "sched", "pac" }
    /\ addPlayerCall = "addPlayers"
    /\ showMode = FALSE
    /\ testMode = FALSE
    /\ timesInPreferredOrder \in TimeLists
    /\ courtsInPreferredOrder \in CourtLists
    /\ avail \in AvailTables
    /\ pc = "search"
    /\ self = SearchSelf
    /\ needsReservation = TRUE
    /\ exc = NoExc
    /\ calls = << >>
    /\ attempts = IF ver = "sched" THEN << "started" >> ELSE << >>
    /\ lookups = 0
    /\ siteSession = TRUE

\* self.findFirstAvailableCourt() called once, its blockAvailable calls logged.
SearchLogged ==
    /\ pc = "search"
    /\ LET r == findFirstAvailableCourt(ver, avail, timesInPreferredOrder,
                                        courtsInPreferredOrder)
       IN  /\ self' = IF r = NoneFound THEN self ELSE [self EXCEPT !.found = r]
           /\ exc' = IF r = NoneFound THEN PacException(<< NO_COURTS_MSG >>) ELSE NoExc
    /\ queries' = findFirstAvailableCourtQueries(ver, avail, timesInPreferredOrder,
                                                 courtsInPreferredOrder)
    /\ pc' = "searched"
    /\ UNCHANGED << settings, nav, siteLookups, subSlots, avail, needsReservation, hist >>

SpecQueries == InitSearch /\ [][SearchLogged]_vars

\* Mutant: a repeated search passes over the court found before.
Search_ExcludesFound ==
    /\ pc \in { "search", "searched" }
    /\ LET av == [x \in DOMAIN avail |-> avail[x] /\ x[1] # self.found.court]
           r == findFirstAvailableCourt(ver, av, timesInPreferredOrder,
                                        courtsInPreferredOrder)
       IN  /\ self' = IF r = NoneFound THEN self ELSE [self EXCEPT !.found = r]
           /\ exc' = IF r = NoneFound THEN PacException(<< NO_COURTS_MSG >>) ELSE NoExc
    /\ pc' = IF pc = "search" THEN "searched" ELSE "searchedAgain"
    /\ UNCHANGED << prefs, avail, needsReservation, hist >>

\* self.found = self.findFirstAvailableCourt(), called once and then once more.
Search ==
    /\ pc \in { "search", "searched" }
    /\ LET r == findFirstAvailableCourt(ver, avail, timesInPreferredOrder,
                                        courtsInPreferredOrder)
       IN  /\ self' = IF r = NoneFound THEN self ELSE [self EXCEPT !.found = r]
           /\ exc' = IF r = NoneFound THEN PacException(<< NO_COURTS_MSG >>) ELSE NoExc
    /\ pc' = IF pc = "search" THEN "searched" ELSE "searchedAgain"
    /\ UNCHANGED << prefs, avail, needsReservation, hist >>

SpecSearch == InitSearch /\ [][Search]_vars

\* The search before and after a participant-conflict restart: between the two
\* the attempt is cancelled, the next candidate is taken, and the site may show
\* any other availability.
InitRestart ==
    /\ InitSearch
    /\ timesInPreferredOrder = WorkflowTimes

ConflictRestart ==
    /\ pc = "searched" /\ ~Raised(exc)
    /\ \A k \in 1..Len(attempts) : attempts[k] # "cancelled"
    /\ avail' \in AvailTables
    /\ attempts' = IF ver = "sched" THEN << "cancelled", "started" >> ELSE << "cancelled" >>
    /\ self' = [self EXCEPT !.playerItr = @ + 1, !.player2 = people[self.playerItr + 1]]
    /\ UNCHANGED << prefs, needsReservation, pc, exc, calls, lookups, siteSession >>

SpecRestart == InitRestart /\ [][Search \/ ConflictRestart]_vars

\* The two sub-slot derivations alone, each called once on one window.
InitTimes ==
    /\ schDate = requestDate /\ diff = 0 /\ advances = 0
    /\ siteLookups = << >>
    /\ queries = << >>
    /\ \E d \in { requestDate, requestDate + 1 } : subSlots = [NoSubSlots EXCEPT !.dt = d]
    /\ today = requestDate
    /\ dayOfWeekArg = "Sun"
    /\ ver \in { "sched", "pac" }
    /\ addPlayerCall = "addPlayers"
    /\ showMode = FALSE
    /\ testMode = FALSE
    /\ \E ct \in CourtTimeInputs : timesInPreferredOrder = << ct >>
    /\ courtsInPreferredOrder = [i \in Courts |-> i]
    /\ avail = [x \in Courts \X TimeRows |-> TRUE]
    /\ pc = "times"
    /\ self = InitSelf
    /\ needsReservation = FALSE
    /\ exc = NoExc
    /\ calls = << >>
    /\ attempts = << >>
    /\ lookups = 0
    /\ siteSession = FALSE

\* courtTime.getTimeRows()
GetTimeRows ==
    /\ pc = "times"
    /\ "timeRows" \notin subSlots.got
    /\ subSlots' = [subSlots EXCEPT !.timeRows = getTimeRows(timesInPreferredOrder[1]),
                                    !.got = @ \cup { "timeRows" }]
    /\ UNCHANGED << settings, nav, siteLookups, queries, avail, self, needsReservation,
                    pc, exc, hist >>

\* courtTime.getStartTimesForDate(dt)
GetStartTimesForDate ==
    /\ pc = "times"
    /\ "startTimes" \notin subSlots.got
    /\ subSlots' = [subSlots EXCEPT
                       !.startTimes = getStartTimesForDate(timesInPreferredOrder[1], subSlots.dt),
                       !.got = @ \cup { "startTimes" }]
    /\ UNCHANGED << settings, nav, siteLookups, queries, avail, self, needsReservation,
                    pc, exc, hist >>

SpecTimes == InitTimes /\ [][GetTimeRows \/ GetStartTimesForDate]_vars

\* The request date alone, over every weekday argument and a span of todays.
InitDate ==
    /\ schDate = requestDate /\ diff = 0 /\ advances = 0
    /\ siteLookups = << >>
    /\ queries = << >>
    /\ subSlots = NoSubSlots
    /\ today \in 0..MaxToday
    /\ dayOfWeekArg \in DayArgs
    /\ ver \in { "sched", "pac" }
    /\ addPlayerCall = "addPlayers"
    /\ showMode = FALSE
    /\ testMode = FALSE
    /\ timesInPreferredOrder = WorkflowTimes
    /\ courtsInPreferredOrder = [i \in 1..NumCourts |-> i]
    /\ avail = [x \in Courts \X TimeRows |-> FALSE]
    /\ pc = "construct"
    /\ InitRun

\* sched.py 82, paccontrol.py 82:
\* self.requestDate = CourtTimes.nextDateForDay(args.dayOfWeek)
NextDateForDay ==
    /\ pc = "construct"
    /\ IF tm_wday(dayOfWeekArg) = -1
       THEN /\ exc' = OtherException("ValueError")
            /\ self' = self
       ELSE /\ exc' = exc
            /\ self' = [self EXCEPT !.requestDate = nextDateForDay(today, dayOfWeekArg)]
    /\ pc' = "constructed"
    /\ UNCHANGED << prefs, avail, needsReservation, hist >>

SpecDate == InitDate /\ [][NextDateForDay]_vars

\* The error windows reserveCourt may find when it looks alone.
ErrWinSeqs == UNION { [1..n -> DialogTexts] : n \in 0..MaxErrWins }

\* The object as reserveCourt finds it in the first pass of the loop: a court
\* found, the first candidate added, the reservation pending.
ReserveSelf ==
    LET f == CourtAndTime(courtsInPreferredOrder[1], timesInPreferredOrder[1])
    IN  IF ver = "sched"
        THEN [SearchSelf EXCEPT !.found = f]
        ELSE [SearchSelf EXCEPT !.found = f, !.resForm = TRUE, !.playerItr = 2,
                                !.player2 = people[2]]

\* reserveCourt alone, over the error windows the page can display.
InitErrWin ==
    /\ schDate = requestDate /\ diff = 0 /\ advances = 0
    /\ siteLookups = << >>
    /\ queries = << >>
    /\ subSlots = NoSubSlots
    /\ today = requestDate
    /\ dayOfWeekArg = "Sun"
    /\ ver \in { "sched", "pac" }
    /\ addPlayerCall = "addPlayers"
    /\ showMode = FALSE
    /\ testMode \in BOOLEAN
    /\ timesInPreferredOrder = WorkflowTimes
    /\ courtsInPreferredOrder = [i \in 1..NumCourts |-> i]
    /\ avail = [x \in Courts \X TimeRows |-> TRUE]
    /\ pc = "reserveCourt"
    /\ self = ReserveSelf
    /\ needsReservation = TRUE
    /\ exc = NoExc
    /\ calls = << >>
    /\ attempts = << "started" >>
    /\ lookups = 1
    /\ siteSession = TRUE

ReserveCourtErrWins ==
    /\ pc = "reserveCourt" /\ ver = "sched"
    /\ \E dialogs \in ErrWinSeqs, fp \in 0..(2 + 2 * MaxErrWins) :
          Commit(reserveCourt(Here, testMode, dialogs, fp),
                 StepAfter(LoopOrder, "reserveCourt"))

ReserveCourtPacErrWins ==
    /\ pc = "reserveCourt" /\ ver = "pac"
    /\ \E dialogs \in ErrWinSeqs, fp \in 0..(2 + 2 * MaxErrWins) :
          Commit(reserveCourtPac(Here, testMode, dialogs, fp),
                 StepAfter(LoopOrderPac, "reserveCourt"))

NextErrWin == ReserveCourtErrWins \/ ReserveCourtPacErrWins

SpecErrWin == InitErrWin /\ [][NextErrWin]_vars

\* The object as the add-player step finds it in the first pass of the loop.
AddSelf ==
    IF ver = "sched"
    THEN [InitSelf EXCEPT !.webDriver = TRUE, !.loggedIn = TRUE,
                          !.reservationStarted = TRUE, !.playerItr = 1]
    ELSE [InitSelf EXCEPT !.webDriver = TRUE, !.logOutHref = TRUE, !.resForm = TRUE,
                          !.found = CourtAndTime(courtsInPreferredOrder[1],
                                                 timesInPreferredOrder[1]),
                          !.playerItr = 1]

\* The add-player step alone, over everything the site can do at its tries.
InitLookup ==
    /\ schDate = requestDate /\ diff = 0 /\ advances = 0
    /\ ver \in { "sched", "pac" }
    /\ queries = << >>
    /\ subSlots = NoSubSlots
    /\ siteLookups \in [1..MAX_TRYS -> IF ver = "sched" THEN LookupResponses
                                       ELSE LookupResponsesPac]
    /\ today = requestDate
    /\ dayOfWeekArg = "Sun"
    /\ addPlayerCall = "addPlayers"
    /\ showMode = FALSE
    /\ testMode = FALSE
    /\ timesInPreferredOrder = WorkflowTimes
    /\ courtsInPreferredOrder = [i \in 1..NumCourts |-> i]
    /\ avail = [x \in Courts \X TimeRows |-> TRUE]
    /\ pc = "addPlayer"
    /\ self = AddSelf
    /\ needsReservation = TRUE
    /\ exc = NoExc
    /\ calls = << >>
    /\ attempts = << "started" >>
    /\ lookups = 0
    /\ siteSession = TRUE

AddPlayersLookup ==
    /\ pc = "addPlayer" /\ ver = "sched"
    /\ \E waitOk \in BOOLEAN :
          Commit(addPlayers(Here, siteLookups, waitOk), StepAfter(LoopOrder, "addPlayer"))

AddPlayerPacLookup ==
    /\ pc = "addPlayer" /\ ver = "pac"
    /\ Commit(addPlayerPac(Here, siteLookups), StepAfter(LoopOrderPac, "addPlayer"))

NextLookup == AddPlayersLookup \/ AddPlayerPacLookup

SpecLookup == InitLookup /\ [][NextLookup]_vars

\* The date change of navigateToSchedule alone, over the dates the schedule
\* page can display at first.
InitNav ==
    /\ schDate \in (requestDate - MaxDiff)..(requestDate + MaxDiff)
    /\ diff = 0
    /\ advances = 0
    /\ siteLookups = << >>
    /\ queries = << >>
    /\ subSlots = NoSubSlots
    /\ today = requestDate
    /\ dayOfWeekArg = "Sun"
    /\ ver \in { "sched", "pac" }
    /\ addPlayerCall = "addPlayers"
    /\ showMode = FALSE
    /\ testMode = FALSE
    /\ timesInPreferredOrder = WorkflowTimes
    /\ courtsInPreferredOrder = [i \in 1..NumCourts |-> i]
    /\ avail = [x \in Courts \X TimeRows |-> FALSE]
    /\ pc = "readDate"
    /\ self = [InitSelf EXCEPT !.webDriver = TRUE]
    /\ needsReservation = FALSE
    /\ exc = NoExc
    /\ calls = << >>
    /\ attempts = << >>
    /\ lookups = 0
    /\ siteSession = TRUE

\* sched.py 197, paccontrol.py 225:
\* diff = self.requestDate - datetime.strptime(schDate, ...).date()
NavReadDate ==
    /\ pc = "readDate"
    /\ diff' = self.requestDate - schDate
    /\ pc' = "loop"
    /\ UNCHANGED << settings, siteLookups, queries, subSlots, schDate, advances, avail, self, needsReservation, exc, hist >>

\* sched.py 199-206: if diff: calendarAddDay($('date'), diff.days, ...) and the wait.
NavAddDays ==
    /\ pc = "loop" /\ ver = "sched" /\ diff # 0
    /\ \E ok \in BOOLEAN :
          IF ok
          THEN /\ schDate' = schDate + diff
               /\ advances' = advances + 1
               /\ exc' = exc
          ELSE /\ exc' = fromXcp("load selected schedule date", "WebDriverException")
               /\ UNCHANGED << schDate, advances >>
    /\ pc' = "navigated"
    /\ UNCHANGED << settings, siteLookups, queries, subSlots, diff, avail, self, needsReservation, hist >>

\* paccontrol.py 227-232: one pass of while diff: click button.k-nav-next, wait,
\* diff -= ONE_DAY.  The model stops counting at MaxAdvances clicks.
NavNextDay ==
    /\ pc = "loop" /\ ver = "pac" /\ diff # 0
    /\ advances < MaxAdvances
    /\ \E ok \in BOOLEAN :
          IF ok
          THEN /\ schDate' = schDate + 1
               /\ advances' = advances + 1
               /\ diff' = diff - 1
               /\ UNCHANGED << pc, exc >>
          ELSE /\ exc' = fromXcp("request date on schedule", "WebDriverException")
               /\ pc' = "navigated"
               /\ UNCHANGED << schDate, advances, diff >>
    /\ UNCHANGED << settings, siteLookups, queries, subSlots, avail, self, needsReservation, hist >>

\* diff is zero: the if of sched is skipped, the while of pac ends.
NavDone ==
    /\ pc = "loop" /\ diff = 0
    /\ pc' = "navigated"
    /\ UNCHANGED << prefs, avail, self, needsReservation, exc, hist >>

NextNav == NavReadDate \/ NavAddDays \/ NavNextDay \/ NavDone

SpecNav == InitNav /\ [][NextNav]_vars

\* ================================================================ claims
\* ------------------------------------------------- reading the call history
IsCall(i, op, by) == calls[i][1] = op /\ calls[i][2] = by
CallIdx(op, by) == { i \in 1..Len(calls) : IsCall(i, op, by) }
GuardCancels == CallIdx("cancelPendingReservation", "__exit__")
LogOuts == { i \in 1..Len(calls) : calls[i][1] = "logOut" }
\* The session was marked open: logIn returned normally.
SessionOpened == \E i \in 1..Len(calls) : calls[i] = Call("logIn", "main", "ok")
\* The calls that only the teardown makes: the guard and the top-level handler.
Teardown == { "__exit__", "__main__" }

\* ------------------------------------------------------------------- C1
\* The sub-slots of a window, derived from its start and duration alone.
SubSlots(ct) == { ct.startTime + THIRTY_MINUTES * k : k \in 0..((ct.duration - 1) \div 30) }
Qualifies(i, j) ==
    \A t \in SubSlots(timesInPreferredOrder[i]) :
        SiteFree(avail, courtsInPreferredOrder[j], << t \div 60, t % 60 >>)
QualifyingPairs ==
    { p \in (1..Len(timesInPreferredOrder)) \X (1..Len(courtsInPreferredOrder)) :
        Qualifies(p[1], p[2]) }
\* The reference scan: the qualifying pair that is first window-major, court-minor.
FirstPair ==
    CHOOSE p \in QualifyingPairs :
        \A q \in QualifyingPairs : p[1] < q[1] \/ (p[1] = q[1] /\ p[2] <= q[2])
ReferenceScan ==
    IF QualifyingPairs = {} THEN NoneFound
    ELSE CourtAndTime(courtsInPreferredOrder[FirstPair[2]], timesInPreferredOrder[FirstPair[1]])

\* C1: for every bounded preference set and availability table, what
\* findFirstAvailableCourt returns is the first (court, window) pair, windows
\* outermost and courts innermost in list order, whose sub-slots are all
\* available; it raises exactly when no pair qualifies.
C1_SlotSearchIsReferenceScan ==
    pc = "searched" =>
        IF Raised(exc) THEN ReferenceScan = NoneFound
        ELSE self.found = ReferenceScan /\ ReferenceScan # NoneFound

\* A search that had to pass over the first window and the first court.
C1_Witness ==
    /\ pc = "searched"
    /\ Len(timesInPreferredOrder) = 2
    /\ timesInPreferredOrder[1] # timesInPreferredOrder[2]
    /\ self.found = CourtAndTime(courtsInPreferredOrder[2], timesInPreferredOrder[2])
    /\ \E row \in TimeRows : SiteFree(avail, courtsInPreferredOrder[1], row)

\* ------------------------------------------------------------------- C2
\* C2: on every exit path the guard cancels before it logs out: no logOut call
\* of the guard precedes a cancelPendingReservation call of the guard.
C2_CancelPrecedesLogOut ==
    \A i \in CallIdx("logOut", "__exit__") : \A j \in GuardCancels : j < i

\* The guard did both, on a path left by an exception that is no PacException.
C2_Witness ==
    /\ pc = "top"
    /\ GuardCancels # {}
    /\ CallIdx("logOut", "__exit__") # {}
    /\ exc.kind = "Other"

\* ------------------------------------------------------------------- C3
\* C3: when the guard's cancelPendingReservation raises while the session is
\* open, the guard still calls logOut afterwards.
C3_FailedCancelStillLogsOut ==
    \A i \in GuardCancels :
        (calls[i][3] # "ok" /\ SessionOpened) =>
            \E j \in CallIdx("logOut", "__exit__") : j > i

C3_Witness ==
    /\ ver = "sched"
    /\ \E i \in GuardCancels : calls[i][3] = "PacException"
    /\ \E j \in CallIdx("logOut", "__exit__") : calls[j][3] = "ok"

\* ------------------------------------------------------------------- C4
\* C4: whatever step fails, a run that opened a session calls logOut exactly
\* once, a run that never opened one never calls it, and the guard cancels at
\* most once.
C4_LogOutOnceCancelAtMostOnce ==
    /\ Cardinality(GuardCancels) <= 1
    /\ Cardinality(LogOuts) <= 1
    /\ ~SessionOpened => LogOuts = {}
    /\ pc \in { "top", "done" } /\ SessionOpened => Cardinality(LogOuts) = 1

\* A run that failed at the confirm click, was cancelled and logged out.
C4_Witness ==
    /\ pc = "done"
    /\ \E i \in CallIdx("confirm", "reserveCourt") : calls[i][3] = "PacException"
    /\ Cardinality(GuardCancels) = 1
    /\ Cardinality(LogOuts) = 1

SelectCalls == CallIdx("selectAvailableCourt", "main")

\* C6: when no pair has all its sub-slots available the search raises
\* PacException("No available courts found") and the run ends: after it only the
\* guard and the top-level handler act.
C6_NotFoundIsFatal ==
    /\ (SelectCalls # {} /\ ReferenceScan = NoneFound) =>
          \A i \in SelectCalls : calls[i][3] = "PacException"
    /\ \A i \in SelectCalls :
          calls[i][3] # "ok" => \A j \in (i + 1)..Len(calls) : calls[j][2] \in Teardown
    /\ exc.msg = << NO_COURTS_MSG >> =>
          /\ exc.kind = "PacException"
          /\ ReferenceScan = NoneFound
          /\ pc \in { "exit", "top", "done" }
    /\ (pc = "exit" /\ SelectCalls # {} /\ ReferenceScan = NoneFound) =>
          exc \in { PacException(<< NO_COURTS_MSG >>),
                    fromXcp("find court time block", "WebDriverException") }

\* One sub-slot free, no pair qualifies: the run ended with the message, the
\* reservation started before the search was cancelled by the guard.
C6_Witness ==
    /\ pc = "done"
    /\ ver = "sched"
    /\ exc = PacException(<< NO_COURTS_MSG >>)
    /\ \E c \in Courts, row \in TimeRows : SiteFree(avail, c, row)
    /\ attempts = << "cancelled" >>
    /\ Cardinality(LogOuts) = 1

\* ------------------------------------------------------------------- C7
Inner == { "reserveCourt", "handleErrorWindow" }
ConflictCancels == CallIdx("cancelPendingReservation", "handleErrorWindow")
FirstStep == IF ver = "sched" THEN LoopOrder[1] ELSE LoopOrderPac[1]
SessionFlag == IF ver = "sched" THEN self.loggedIn ELSE self.logOutHref

\* The last call made inside the reserveCourt call at index i.
RECURSIVE SegEnd(_)
SegEnd(i) ==
    IF i < Len(calls) /\ calls[i + 1][2] \in Inner THEN SegEnd(i + 1) ELSE i
\* The reserveCourt calls that returned normally after a participant conflict.
ConflictRestarts ==
    { i \in CallIdx("reserveCourt", "main") :
        /\ calls[i][3] = "ok"
        /\ \E k \in (i + 1)..SegEnd(i) : IsCall(k, "cancelPendingReservation", "handleErrorWindow") }

AlertCalls == CallIdx("handleAlert", "selectAvailableCourt")

AddCalls == CallIdx("addPlayers", "main") \cup CallIdx("addPlayer", "main")
LookupTimedOut == exc = fromXcp("find player", "TimeoutException")

\* C9 as stated: a run ends on a candidate that cannot be resolved only when the
\* candidate list is exhausted.
C9_Original ==
    (pc = "done" /\ LookupTimedOut) => self.playerItr = NumPeople

\* C9, amended: one pass offers one candidate.  A candidate that cannot be
\* resolved after its three lookups fails the add-player step, and that ends the
\* run; the next candidate is offered only by a later pass, after a
\* participant conflict; with the list exhausted the step raises "Need another
\* player for reservation".
C9_OneCandidatePerAttempt ==
    /\ \A i \in AddCalls :
          calls[i][3] # "ok" => \A j \in (i + 1)..Len(calls) : calls[j][2] \in Teardown
    /\ \A i, j \in AddCalls :
          i < j => \E k \in ConflictCancels : i < k /\ k < j
    /\ self.playerItr >= 1 => self.playerItr - 1 <= Cardinality(AddCalls)
    /\ LookupTimedOut => lookups = MAX_TRYS
    /\ exc = PacException(<< NEED_PLAYER_MSG >>) => self.playerItr = NumPeople

\* The first candidate timed out three times; the run ended with candidates left.
C9_Witness ==
    /\ pc = "done"
    /\ LookupTimedOut
    /\ lookups = MAX_TRYS
    /\ self.playerItr = 2
    /\ self.playerItr < NumPeople

\* ------------------------------------------------------------------ C10
ConflictText(t) == IF ver = "sched" THEN IsConflict(t) ELSE IsConflictPac(t)
AllCandidatesConflicted == Cardinality(ConflictRestarts) = NumPeople - 1
GuardFailed == \E i \in 1..Len(calls) : calls[i][2] = "__exit__" /\ calls[i][3] # "ok"

\* C10 as stated: a run in which every candidate ended in a participant
\* conflict fails with the participant-conflict message.
C10_Original ==
    (pc = "done" /\ AllCandidatesConflicted) =>
        /\ Raised(exc)
        /\ \E k \in 1..Len(exc.msg) : ConflictText(exc.msg[k])

\* C10, amended: every conflict cancels the attempt and the loop goes round
\* again; a run never ends as a success on a conflict; once every candidate has
\* been used up by a conflict, the add-player step of the next pass raises "Need
\* another player for reservation", and that message, not the conflict message,
\* is the failure of the run (unless the guard's own cancel or logOut fails).
C10_ConflictsEndInNeedPlayer ==
    /\ LET restarts == ConflictRestarts
       IN  /\ \A i \in restarts :
                 LET e == SegEnd(i)
                 IN  /\ pc \notin { "exit", "top", "done" } \/ e < Len(calls)
                     /\ \E k \in (i + 1)..e :
                           calls[k] = Call("cancelPendingReservation", "handleErrorWindow", "ok")
           /\ Cardinality(restarts) = NumPeople - 1 =>
                 \A i \in AddCalls :
                    (\A r \in restarts : r < i) =>
                        /\ calls[i][3] = "PacException"
                        /\ pc = "exit" => exc = PacException(<< NEED_PLAYER_MSG >>)
                        /\ pc = "done" =>
                              (exc = PacException(<< NEED_PLAYER_MSG >>) \/ GuardFailed)
    /\ (ver = "sched" /\ Raised(exc)) =>
          \A k \in 1..Len(exc.msg) : ~ConflictText(exc.msg[k])

C10_Witness ==
    /\ pc = "done"
    /\ ver = "sched"
    /\ AllCandidatesConflicted
    /\ exc = PacException(<< NEED_PLAYER_MSG >>)
    /\ Len(attempts) = NumPeople
    /\ \A k \in 1..Len(attempts) : attempts[k] = "cancelled"

\* ------------------------------------------------------------------ C11
CheckMsg == IF ver = "sched" THEN "verify reservation is good"
            ELSE "confirm reservation is good"
ErrorChecks == CallIdx("handleErrorWindow", "reserveCourt")
\* The last call made inside the error-dialog check at index i.
RECURSIVE CheckEnd(_)
CheckEnd(i) ==
    IF i < Len(calls) /\ calls[i + 1][2] = "handleErrorWindow" THEN CheckEnd(i + 1) ELSE i
\* The dialogs the check at index i dismissed without cancelling the attempt:
\* those whose text is no participant conflict.
OtherDialogs(i) ==
    { k \in (i + 1)..CheckEnd(i) :
        /\ calls[k] = Call("dismiss", "handleErrorWindow", "ok")
        /\ ~(k < Len(calls) /\ IsCall(k + 1, "cancelPendingReservation", "handleErrorWindow")) }
\* A click or wait of the check at index i failed.
PortFailed(i) == \E k \in (i + 1)..CheckEnd(i) : calls[k][3] = "PacException"

\* C11 as stated: when the error-dialog check (its clicks and waits succeeding)
\* found a displayed dialog that is no participant conflict, it raised a
\* PacException whose message holds the texts of all such dialogs and of no
\* conflict dialog, also when conflict dialogs were displayed with them, and no
\* call of the main program follows: the run ends, only the guard and the
\* top-level handler act.
C11_Original ==
    \A i \in ErrorChecks :
        LET others == OtherDialogs(i)
        IN  (others # {} /\ ~PortFailed(i)) =>
                /\ calls[i][3] = "PacException"
                /\ \A j \in (CheckEnd(i) + 1)..Len(calls) : calls[j][2] \in Teardown
                /\ pc \in { "exit", "top", "done" }
                /\ pc = "exit" =>
                      /\ Len(exc.msg) = 3 + Cardinality(others)
                      /\ SubSeq(exc.msg, 1, 3) = << "Unable to", CheckMsg, "due to" >>
                      /\ \A k \in 4..Len(exc.msg) : ~ConflictText(exc.msg[k])

\* ------------------------------------------------------------------ C12
ReserveCalls == CallIdx("reserveCourt", "main")
\* The reserveCourt call at index i inspected the confirm button.
Inspected(i) ==
    \E k \in (i + 1)..Len(calls) :
        /\ calls[k] = Call("inspect", "reserveCourt", "ok")
        /\ \A j \in (i + 1)..k : calls[j][2] \in Inner

\* C12: in a run with testMode set no confirm click is ever made and no attempt
\* is ever confirmed; a reserveCourt that returns without a participant conflict
\* has inspected the confirm button, and it is the last call of the loop: the
\* loop ends as it does after a confirmation.
C12_TestModeNeverConfirms ==
    testMode =>
        /\ \A i \in 1..Len(calls) : calls[i][1] \notin { "confirm", "confirmWait" }
        /\ \A k \in 1..Len(attempts) : attempts[k] # "confirmed"
        /\ LET restarts == ConflictRestarts
           IN  \A i \in ReserveCalls :
                  (calls[i][3] = "ok" /\ i \notin restarts) =>
                      /\ Inspected(i)
                      /\ \A j \in (i + 1)..Len(calls) : calls[j][2] # "main"
                      /\ pc \in { "loopTest", "exit", "top", "done" }
                      /\ pc = "loopTest" => ~needsToTryAgain(self)

\* A rehearsal ended normally: the button was inspected, the loop ended, and the
\* guard cancelled the reservation that was never confirmed.
C12_Witness ==
    /\ testMode
    /\ ver = "sched"
    /\ pc = "done"
    /\ ~Raised(exc)
    /\ \E i \in ReserveCalls : calls[i][3] = "ok" /\ Inspected(i)
    /\ attempts = << "cancelled" >>

\* ------------------------------------------------------------------ C13
MainCalls == { i \in 1..Len(calls) : calls[i][2] = "main" }
FailedMainCalls == { i \in MainCalls : calls[i][3] # "ok" }
FirstSteps == CallIdx(FirstStep, "main")
\* The selectAvailableCourt calls that failed on an alert.
AlertFailures == { i \in MainCalls : i > 1 /\ (i - 1) \in AlertCalls }

C14_OneAttemptInFlight ==
    /\ \A k \in 1..(Len(attempts) - 1) : attempts[k] # "started"
    /\ Cardinality({ k \in 1..Len(attempts) : attempts[k] = "started" }) <= 1
    /\ ver = "sched" =>
          (self.reservationStarted <=>
              (attempts # << >> /\ attempts[Len(attempts)] = "started"))

\* The third attempt is in flight, the two before it were cancelled on conflicts.
C14_Witness ==
    /\ Len(attempts) = 3
    /\ attempts[3] = "started"
    /\ Cardinality(ConflictRestarts) = 2
    /\ pc \notin { "exit", "top", "done" }

\* ------------------------------------------------------------------ C15
LogIns == CallIdx("logIn", "main")

\* C15 as stated: whenever the session is marked open, exactly one logIn call
\* has been made and no logOut has run.
C15_Original ==
    SessionFlag => (Cardinality(LogIns) = 1 /\ LogOuts = {})

\* C15, amended: logIn is called at most once in a run, however many attempts
\* are made, and only the guard calls logOut.  Whenever the session is marked
\* open, the one logIn call returned normally and no logOut has succeeded: a
\* logOut that raised leaves the session marked open, and that happens only at
\* the end of the run.  Until logOut is called, a session that logIn opened
\* stays marked open.
C15_SessionMarkedOpen ==
    /\ Cardinality(LogIns) <= 1
    /\ \A i \in LogOuts : calls[i][2] = "__exit__"
    /\ SessionFlag =>
          /\ \E i \in LogIns : calls[i][3] = "ok"
          /\ \A i \in LogOuts : calls[i][3] # "ok"
          /\ LogOuts # {} => pc \in { "top", "done" }
    /\ (LogOuts = {} /\ \E i \in LogIns : calls[i][3] = "ok") => SessionFlag

\* Three attempts were made under the only logIn call; the guard's logOut
\* raised, and the run ended with the session still marked open.
C15_Witness ==
    /\ pc = "done"
    /\ SessionFlag
    /\ Len(attempts) = 3
    /\ Cardinality(LogIns) = 1
    /\ \E i \in LogOuts : calls[i] = Call("logOut", "__exit__", "PacException")

\* ------------------------------------------------------------------ C16
\* The offset asked for: the one number of days from 0 to 6 that leads from
\* today to the requested weekday.
DaysAhead == CHOOSE k \in 0..6 : weekday(today + k) = tm_wday(dayOfWeekArg)

\* C16: for a valid weekday argument nextDateForDay returns today when today is
\* that weekday, and otherwise the date 1 to 6 days ahead that is that weekday:
\* the offset is (requested - today's weekday) mod 7, never negative, never 7
\* or more.
C16_NextDateWithinWeek ==
    (pc = "constructed" /\ tm_wday(dayOfWeekArg) # -1) =>
        LET offset == self.requestDate - today
        IN  /\ offset \in 0..6
            /\ weekday(self.requestDate) = tm_wday(dayOfWeekArg)
            /\ weekday(today) = tm_wday(dayOfWeekArg) <=> offset = 0
            /\ offset = DaysAhead
            /\ ~Raised(exc)

\* Today is a Wednesday and Monday is asked for: the date is 5 days ahead.
C16_Witness ==
    /\ pc = "constructed"
    /\ weekday(today) = 2
    /\ dayOfWeekArg = "Mon"
    /\ self.requestDate = today + 5

\* ------------------------------------------------------------------ C17
\* What the search of this state returned.
Searched == IF Raised(exc) THEN NoneFound ELSE self.found
\* The search run on the same schedule with the courts in another order.
SearchWith(courts) == findFirstAvailableCourt(ver, avail, timesInPreferredOrder, courts)

\* C17: with the availability fixed, the search run with the courts in any
\* other order finds nothing exactly when this search found nothing, and
\* otherwise chooses the same window; the court it chooses is one whose
\* sub-slots are all available in that window.
C17_CourtOrderKeepsWindow ==
    pc = "searched" =>
        \A courts \in CourtLists :
            LET other == SearchWith(courts)
            IN  /\ other = NoneFound <=> Searched = NoneFound
                /\ other # NoneFound =>
                      /\ other.courtTime = Searched.courtTime
                      /\ AllAvailable(ver, avail, other.court, other.courtTime)

\* A tie within the chosen window: another order of the courts gives another
\* court, in the same window.
C17_Witness ==
    /\ pc = "searched"
    /\ Searched # NoneFound
    /\ \E courts \in CourtLists :
          /\ SearchWith(courts).court # Searched.court
          /\ SearchWith(courts).courtTime = Searched.courtTime

\* ------------------------------------------------------------------ C18
\* What one call of the search may do to the state.
SearchCallKeepsState ==
    pc \in { "search", "searched" } =>
        /\ self' = [self EXCEPT !.found = self'.found]
        /\ UNCHANGED << prefs, avail, needsReservation, hist >>
        /\ pc = "searched" => (self'.found = self.found /\ exc' = exc)
        /\ IF Raised(exc') THEN self'.found = self.found ELSE self'.found # NoneFound

Abs(n) == IF n < 0 THEN -n ELSE n
FirstDisplayed == schDate - advances
DaysApart == Abs(self.requestDate - FirstDisplayed)

\* C19 as stated: in paccontrol.py the date-advance loop issues no more one-day
\* advances than the day difference requires, whatever its sign, and when it
\* has ended the schedule displays the request date.
C19_Original ==
    ver = "pac" =>
        /\ advances <= DaysApart
        /\ (pc = "navigated" /\ ~Raised(exc)) =>
              (schDate = self.requestDate /\ advances = DaysApart)

\* ------------------------------------------------------------------ C20
\* The operations a preview run asks for before its teardown.
ShowOps == { "openBrowser", "logIn", "navigateToSchedule" }

\* C20: in show mode the run stops once the schedule is opened: outside its
\* teardown it makes no call other than openBrowser, logIn and
\* navigateToSchedule, it starts no attempt, it leaves the guard nothing to
\* cancel, and once it has ended after opening a session the guard has called
\* logOut.
C20_ShowModeStopsAtSchedule ==
    showMode =>
        /\ \A i \in 1..Len(calls) : calls[i][2] \notin Teardown => calls[i][1] \in ShowOps
        /\ attempts = << >>
        /\ ~needsReservation
        /\ GuardCancels = {}
        /\ (pc \in { "top", "done" } /\ SessionOpened) =>
              CallIdx("logOut", "__exit__") # {}

\* A preview run that opened the schedule, slept, and was logged out.
C20_Witness ==
    /\ showMode
    /\ pc = "done"
    /\ \E i \in CallIdx("navigateToSchedule", "main") : calls[i][3] = "ok"
    /\ \E j \in CallIdx("logOut", "__exit__") : calls[j][3] = "ok"
    /\ ~siteSession

\* ------------------------------------------------------------------ C21
\* The calls of the main program and of the guard that raised a PacException.
FatalCalls ==
    { i \in 1..Len(calls) : calls[i][2] \in { "main", "__exit__" } /\ calls[i][3] = "PacException" }
ErrorLogs == CallIdx("logging.error", "__main__")

\* C21 as stated: in a run of pacium.py a PacException raised by a workflow step
\* or by the guard's cancel or logOut is not suppressed by the guard, is logged
\* by the top-level handler after every call of the guard, and nothing is raised
\* past the top level.
C21_Original ==
    (ver = "sched" /\ FatalCalls # {}) =>
        /\ pc = "top" => Raised(exc)
        /\ pc = "done" =>
              /\ exc.kind = "PacException"
              /\ ErrorLogs # {}
              /\ \A i \in ErrorLogs : \A j \in 1..Len(calls) : calls[j][2] = "__exit__" => j < i

\* ------------------------------------------------------------------ C22
ConfirmClicks == CallIdx("confirm", "reserveCourt")
\* The error-dialog check at index i found no displayed dialog.
NoDialog(i) == calls[i][3] = "ok" /\ CheckEnd(i) = i

\* C22 as stated: in both versions every confirm click comes after the
\* error-dialog check of the same reserveCourt call, and that check surfaced no
\* dialog.
C22_Original ==
    \A k \in ConfirmClicks :
        \E i \in ErrorChecks :
            /\ i < k
            /\ \A j \in i..k : calls[j][2] \in Inner
            /\ NoDialog(i)

\* C22, amended: in sched.py the confirm click directly follows an error-dialog
\* check of the same reserveCourt call that surfaced no dialog.  In
\* paccontrol.py the order is the reverse: the check runs only directly after a
\* confirm click and its wait, and the attempt counts as confirmed only when
\* that check surfaced no dialog.
C22_ConfirmAndCheckOrder ==
    /\ ver = "sched" =>
          \A k \in ConfirmClicks :
              k > 1 /\ calls[k - 1] = Call("handleErrorWindow", "reserveCourt", "ok")
    /\ ver = "pac" =>
          /\ \A i \in ErrorChecks :
                /\ i > 2
                /\ calls[i - 2] = Call("confirm", "reserveCourt", "ok")
                /\ calls[i - 1] = Call("confirmWait", "reserveCourt", "ok")
          /\ \A k \in ConfirmClicks : k > 1 /\ IsCall(k - 1, "reserveCourt", "main")
    /\ \A n \in 1..Len(attempts) :
          attempts[n] = "confirmed" =>
              /\ n = Len(attempts)
              /\ \E i \in ErrorChecks : NoDialog(i) /\ \A j \in ErrorChecks : j <= i

\* paccontrol.py: the confirm click was made, then the check found a conflict
\* dialog and the attempt was cancelled; the next attempt was confirmed.
C22_Witness ==
    /\ ver = "pac"
    /\ attempts = << "cancelled", "confirmed" >>
    /\ \E k \in ConfirmClicks :
          /\ calls[k][3] = "ok"
          /\ IsCall(k + 2, "handleErrorWindow", "reserveCourt")
          /\ ~NoDialog(k + 2)
    /\ pc = "done"

\* ------------------------------------------------------------------ C23
\* The main-program call before the one at index q (0 when there is none).
RECURSIVE PrevMain(_)
PrevMain(q) ==
    IF q <= 1 THEN 0
    ELSE IF calls[q - 1][2] = "main" THEN q - 1 ELSE PrevMain(q - 1)
\* The main-program call at index q directly follows a normal return of op.
Follows(q, op) ==
    LET p == PrevMain(q) IN p > 0 /\ calls[p][1] = op /\ calls[p][3] = "ok"
AddOp == IF addPlayerCall = "addPlayers" THEN "addPlayers" ELSE "addPlayer"

LookupSucceeded(k) == siteLookups[k] \in { "found", "clickTimeout", "selectTimeout", "notInList" }

\* C24 as stated: once the add-player step has run, it made at most three
\* tries; every try before the last ended in a lookup timeout, so a try whose
\* lookup succeeded was the last one and no other failure was retried; a last
\* try that ended in a lookup timeout was the third and raised the failure.
C24_Original ==
    (pc # "addPlayer" /\ siteLookups # << >>) =>
        /\ lookups \in 1..MAX_TRYS
        /\ \A k \in 1..(lookups - 1) : siteLookups[k] = "timeout"
        /\ \A k \in 1..lookups : LookupSucceeded(k) => k = lookups
        /\ siteLookups[lookups] = "timeout" =>
              lookups = MAX_TRYS /\ exc = fromXcp("find player", "TimeoutException")

\* ------------------------------------------------------------------ C25
\* The blockAvailable call at index n of the search found its sub-slot free.
QueryFree(n) ==
    LET i == queries[n][1]  j == queries[n][2]  k == queries[n][3]
    IN  TokenAvailable(ver, avail, courtsInPreferredOrder[j],
                       SubSlotTokens(ver, timesInPreferredOrder[i])[k])
\* It asked for the last sub-slot of its window.
QueryLast(n) ==
    queries[n][3] = Len(SubSlotTokens(ver, timesInPreferredOrder[queries[n][1]]))
\* The first query of the pair that follows the pair of the query at index n.
NextPairQuery(n) ==
    IF queries[n][2] < Len(courtsInPreferredOrder)
    THEN << queries[n][1], queries[n][2] + 1, 1 >>
    ELSE << queries[n][1] + 1, 1, 1 >>

\* C25: the search queries the first sub-slot of the first pair first; after a
\* query that found its sub-slot free the next query is the next sub-slot of the
\* same pair, after one that found it taken the next query is the first
\* sub-slot of the next pair, so no later sub-slot of that pair is queried; the
\* last query either completes a pair, which is the pair found, or finds the
\* last pair taken, and then nothing is found.
C25_QueriesShortCircuit ==
    pc = "searched" =>
        /\ queries # << >> /\ queries[1] = << 1, 1, 1 >>
        /\ \A n \in 1..(Len(queries) - 1) :
              IF QueryFree(n)
              THEN ~QueryLast(n) /\ queries[n + 1] = << queries[n][1], queries[n][2],
                                                        queries[n][3] + 1 >>
              ELSE queries[n + 1] = NextPairQuery(n)
        /\ LET n == Len(queries)
           IN  IF QueryFree(n)
               THEN /\ QueryLast(n)
                    /\ self.found = CourtAndTime(courtsInPreferredOrder[queries[n][2]],
                                                 timesInPreferredOrder[queries[n][1]])
               ELSE /\ queries[n][1] = Len(timesInPreferredOrder)
                    /\ queries[n][2] = Len(courtsInPreferredOrder)
                    /\ exc = PacException(<< NO_COURTS_MSG >>)

\* A search that left a pair at its first taken sub-slot, with a later sub-slot
\* of that pair free, and that stopped at a pair found before the last pair.
C25_Witness ==
    /\ pc = "searched"
    /\ Len(queries) >= 3
    /\ ~QueryFree(1) /\ ~QueryLast(1)
    /\ TokenAvailable(ver, avail, courtsInPreferredOrder[1],
                      SubSlotTokens(ver, timesInPreferredOrder[1])[2])
    /\ QueryFree(Len(queries))
    /\ queries[Len(queries)][1] < Len(timesInPreferredOrder)

\* ------------------------------------------------------------------ C26
\* The search called after a restart.
SearchAfterRestart ==
    /\ pc = "searched" /\ pc' = "searchedAgain"
    /\ \E k \in 1..Len(attempts) : attempts[k] = "cancelled"
\* What that call may do: it chooses the first qualifying pair of the complete
\* lists on the schedule as it is now, whatever pair was chosen before.
RestartSearchIsFresh ==
    SearchAfterRestart =>
        /\ IF ReferenceScan = NoneFound
           THEN exc' = PacException(<< NO_COURTS_MSG >>)
           ELSE self'.found = ReferenceScan /\ ~Raised(exc')
        /\ ReferenceScan = self.found => self'.found = self.found

\* C26: after a participant-conflict restart the search runs over the complete
\* window and court lists against the availability the site shows then: it
\* returns the first fully available pair of that schedule, and the pair chosen
\* before is chosen again whenever it is still that pair.
C26_RestartSearchesAfresh ==
    [][RestartSearchIsFresh]_vars

\* After a restart the search chose a pair of the first court although rows of
\* the schedule are taken: nothing of the lists was left out.
C26_Witness ==
    /\ pc = "searchedAgain"
    /\ \E k \in 1..Len(attempts) : attempts[k] = "cancelled"
    /\ ~Raised(exc)
    /\ self.found = CourtAndTime(courtsInPreferredOrder[1], timesInPreferredOrder[1])
    /\ \E c \in Courts, row \in TimeRows : ~SiteFree(avail, c, row)

\* ------------------------------------------------------------------ C27
CeilDiv(a, b) == (a + b - 1) \div b
\* The time a token stands for, in minutes: a time row names a time of its day,
\* a start time names a date and a time.
RowMinute(row) == row[1] * 60 + row[2]
StampMinute(st) == st[1] * 1440 + st[2] * 60 + st[3]
\* A sequence of minutes is the sub-slot sequence of [from, from + d).
SpansWindow(mins, from, d) ==
    /\ Len(mins) = CeilDiv(d, THIRTY_MINUTES)
    /\ mins[1] = from
    /\ \A i \in 1..(Len(mins) - 1) : mins[i + 1] = mins[i] + THIRTY_MINUTES
    /\ \A i \in 1..Len(mins) : mins[i] < from + d
TimeRowsSpan ==
    LET ct == timesInPreferredOrder[1]
    IN  SpansWindow([i \in 1..Len(subSlots.timeRows) |-> RowMinute(subSlots.timeRows[i])],
                    ct.startTime, ct.duration)
StartTimesSpan ==
    LET ct == timesInPreferredOrder[1]
    IN  /\ SpansWindow([i \in 1..Len(subSlots.startTimes) |->
                            StampMinute(subSlots.startTimes[i])],
                       subSlots.dt * 1440 + ct.startTime, ct.duration)
        /\ \A i \in 1..Len(subSlots.startTimes) : subSlots.startTimes[i][4] = 0

\* C27: for a window of d >= 1 minutes both derivations return ceil(d/30)
\* tokens, the first at startTime, each 30 minutes after the one before it and
\* all before startTime + d, and the two return equally many.
C27_Original ==
    /\ "timeRows" \in subSlots.got => TimeRowsSpan
    /\ "startTimes" \in subSlots.got => StartTimesSpan
    /\ subSlots.got = { "timeRows", "startTimes" } =>
           Len(subSlots.timeRows) = Len(subSlots.startTimes)

\* ------------------------------------------------------------------ C28
\* A step that makes the add-player call of an attempt with a candidate left.
OfferStep ==
    /\ Cardinality(AddCalls') = Cardinality(AddCalls) + 1
    /\ (ver = "sched" => addPlayerCall = "addPlayers")
    /\ self.playerItr < NumPeople
\* The candidate that step offers: the person the iterator moved onto.
Offered == people[self'.playerItr]
OffersInListOrder ==
    /\ OfferStep =>
          /\ self'.playerItr = self.playerItr + 1
          /\ self'.playerItr = Len(attempts') + 1
          /\ Offered # people[1]
          /\ ~Raised(exc') => self'.player2 = Offered
    /\ ~OfferStep =>
          \/ self'.playerItr = self.playerItr
          \/ self.playerItr = InitSelf.playerItr /\ self'.playerItr = 1

\* C28: the k-th attempt of a run offers the k-th person after "self" of the
\* people list: the iterator stands on "self" after the log-in, every add-player
\* call moves it one person on and offers that person, and nothing else moves
\* it, so "self" is never offered and nobody is offered twice.
C28_CandidatesInListOrder ==
    [][OffersInListOrder]_vars

\* The second attempt of a run offered the third person of the list.
C28_Witness ==
    /\ Len(attempts) = 2
    /\ Cardinality(AddCalls) = 2
    /\ ~Raised(exc)
    /\ self.playerItr = 3
    /\ self.player2 = people[3]

\* ------------------------------------------------------------------ C29
EveryReserveConflicted == ConflictRestarts # {} /\ ConflictRestarts = ReserveCalls

\* C29 as stated: while every attempt ends in a participant conflict the loop
\* goes on restarting; nothing of the program's own stops it.
C29_Original ==
    EveryReserveConflicted => exc # PacException(<< NEED_PLAYER_MSG >>)

\* C29, amended: the loop has no counter, but every pass takes one person off
\* the iterator over the people list, which is never reset: a run makes at most
\* one add-player call per person after "self" plus the one that finds the list
\* exhausted, so it starts at most as many attempts as the list has people and
\* restarts at most once per candidate.
C29_AttemptsBoundedByPeople ==
    /\ Len(attempts) <= NumPeople
    /\ Cardinality(AddCalls) <= NumPeople
    /\ Cardinality(ConflictRestarts) <= NumPeople - 1
    /\ self.playerItr <= NumPeople
    /\ (EveryReserveConflicted /\ Cardinality(ConflictRestarts) = NumPeople - 1
          /\ pc \in { "top", "done" }) => Raised(exc)

\* Every candidate met a conflict; the pass after the last one started an
\* attempt and stopped for want of a participant.
C29_Witness ==
    /\ pc = "done"
    /\ ver = "pac"
    /\ EveryReserveConflicted
    /\ Cardinality(ConflictRestarts) = NumPeople - 1
    /\ Len(attempts) = NumPeople
    /\ exc = PacException(<< NEED_PLAYER_MSG >>)

\* ------------------------------------------------------------------ C30
Confirmed == \E k \in 1..Len(attempts) : attempts[k] = "confirmed"
PendingMarker == IF ver = "sched" THEN self.reservationStarted ELSE self.resForm
CancelCalls == { i \in 1..Len(calls) : calls[i][1] = "cancelPendingReservation" }

\* C30: once an attempt is confirmed (the confirmation was submitted and no
\* error dialog followed) it is the last attempt of the run, the pending-attempt
\* marker is clear, and the guard makes no cancelPendingReservation call: of the
\* guard's two calls only logOut is made, and every cancel of the run lies before
\* the confirm click of the confirmed attempt.
C30_ConfirmedNeverCancelled ==
    Confirmed =>
        /\ attempts[Len(attempts)] = "confirmed"
        /\ ~PendingMarker
        /\ GuardCancels = {}
        /\ \A i \in 1..Len(calls) : calls[i][2] = "__exit__" => calls[i][1] = "logOut"
        /\ \A i \in CancelCalls : \E k \in ConfirmClicks : i < k

\* A run confirmed its second attempt, after a conflict cancelled the first,
\* and the guard has logged out.
C30_Witness ==
    /\ pc = "done"
    /\ Confirmed
    /\ Len(attempts) = 2
    /\ CancelCalls # {}
    /\ \E i \in 1..Len(calls) : IsCall(i, "logOut", "__exit__")

\* ------------------------------------------------------------------ C31
RunEnded == pc = "done"

C32_Original ==
    (ver = "pac" /\ pc = "done" /\ siteSession) => LogOuts # {}

\* ------------------------------------------------------------------ C33
\* The cancelPendingReservation calls made by the error-dialog check at index i.
CancelsOfCheck(i) ==
    { k \in (i + 1)..CheckEnd(i) : IsCall(k, "cancelPendingReservation", "handleErrorWindow") }

\* C33 as stated: one error-dialog check calls cancelPendingReservation at most
\* once, however many of the displayed dialogs are participant conflicts.
C33_Original ==
    \A i \in ErrorChecks : Cardinality(CancelsOfCheck(i)) <= 1

\* ------------------------------------------------------------------ C34
\* The rehearsal got as far as the confirm button: reserveCourt, past its
\* dialog check where it has one, went to inspect the button.
Rehearsed == testMode /\ \E k \in 1..Len(calls) : IsCall(k, "inspect", "reserveCourt")
Released == attempts # << >> /\ attempts[Len(attempts)] = "cancelled"

\* C34 as stated: a rehearsal that passed the dialog check ends with the
\* attempt released by the guard and the session logged out by it.
C34_Original ==
    (Rehearsed /\ pc = "done") =>
        /\ Released
        /\ \E l \in LogOuts : calls[l][2] = "__exit__"

\* C34, amended: in a rehearsal that reached the confirm button the
\* pending-attempt marker is still set when the scope exits, so the guard calls
\* cancelPendingReservation and after it logOut.  The attempt is released when
\* that cancel succeeds; when it raises, logOut is still called and the attempt
\* is left pending on the site.
C34_RehearsalCancelledByGuard ==
    Rehearsed =>
        /\ pc \in { "loopTest", "exit" } => PendingMarker
        /\ pc \in { "top", "done" } =>
              \E c \in GuardCancels :
                 /\ \E l \in LogOuts : calls[l][2] = "__exit__" /\ c < l
                 /\ calls[c][3] = "ok" <=> (Released /\ ~PendingMarker)

\* A rehearsal was inspected, the guard's cancel raised and its logOut ran: the
\* attempt is still pending.
C34_Witness ==
    /\ Rehearsed
    /\ pc = "done"
    /\ ver = "pac"
    /\ ~Released
    /\ PendingMarker
    /\ \E c \in GuardCancels : calls[c][3] # "ok"
    /\ \E l \in LogOuts : calls[l] = Call("logOut", "__exit__", "ok")

====
